---- MODULE Spec2Model ----
(***************************************************************************)
(* Box-tree construction of one block container                            *)
(* (components/layout_2020/flow/construct.rs).                             *)
(*                                                                         *)
(* The builder is driven by a traversal that delivers, in document order,  *)
(* text events and element events.  An inline-box element is delivered as  *)
(* two steps, the part of handle_inline_level_element before the recursive *)
(* traversal of its children and the part after it; the events in between  *)
(* are the element's children.  Strings are sequences of one-character     *)
(* strings.  A style is the number of the event that delivered the element *)
(* (0 is the style of the block container itself).                         *)
(***************************************************************************)
EXTENDS Integers, Sequences, FiniteSets, TLC

\* Bounds of the model.
MaxEvents == 3      \* events delivered to one builder
MaxChars == 2       \* characters of text delivered to one builder, in total
MaxDepth == 2       \* nesting depth of open inline boxes
MaxTextEvents == 2  \* the same three bounds where the texts are long
MaxTextChars == 3
MaxTextDepth == 1
MaxExampleEvents == 4  \* the same bounds where the texts are those of the examples
MaxExampleDepth == 1
MaxFinishEvents == 3   \* the same bounds where construct is followed step by step
MaxFinishDepth == 1
MaxSizesEvents == 3    \* events delivered where content sizes are requested
MaxLoopEvents == 2     \* the same bounds where handle_text runs its loop step by step
MaxLoopChars == 3
MaxLoopDepth == 1
MaxArcEvents == 4       \* the same bounds where each text run has its allocation
MaxArcChars == 2
MaxArcDepth == 2
MaxWorkerEvents == 2   \* messages handled by the worker thread
MaxWorkerGuards == 2   \* AutoWorkerReset values that the event loop holds at once
MaxWorkerTasks == 1    \* tasks that the scripts of the worker send to the parent

ContainerStyle == 0
AnonymousStyle == -1
DummySlot == 0

\* The style of the anonymous blocks of a container is made from the style
\* of the container.
style_for_anonymous(block_container_style) == AnonymousStyle - block_container_style

\* Option: None is the empty sequence, Some(x) is <<x>>.
None == <<>>
Some(x) == <<x>>

Whitespace == {" ", "\n"}
Chars == {"a", "b"} \cup Whitespace
FewChars == {"a", " "}
DisplayInsides == {"Flow", "FlowRoot"}
ContentsKinds == {"NonReplaced", "Replaced"}

Strings(chars, n) == UNION {[1..k -> chars] : k \in 0..n}

\* The texts of the examples.
ExampleTexts ==
    {<<" ", " ", "H", "e", "l", "l", "o", " ">>,
     <<"w", "o", "r", "l", "d">>,
     <<"!">>, <<"a">>, <<"c">>}

VARIABLES
    limits,                              \* the bounds of this walk, the characters of its texts
    pc,                                  \* "walk", "text", "finish", "done"
    block_level_boxes,                   \* Vec<(IntermediateBlockLevelBox, BoxSlot)>
    ongoing_inline_formatting_context,   \* its inline_level_boxes
    ongoing_inline_boxes_stack,          \* Vec<InlineBox>
    anonymous_style,                     \* Option<Arc<ComputedValues>>
    contains_floats,                     \* ContainsFloats
    box_slots,                           \* per event, the values set in its BoxSlot
    result,                              \* what BlockContainer::construct returned
    container,                           \* the element whose block container is constructed
    content_sizes,                       \* the ContentSizesRequest of this construct
    pass,                                \* the finish pass of this construct
    callers,                             \* the calls of construct waiting for this one
    returns,                             \* what every call of construct has returned
    computed,                            \* whose inline content sizes were asked for
    style_lookups,                       \* per lookup of the anonymous style, its container
    text_loop,                           \* handle_text inside its loop: input, output
    worker,                              \* DedicatedWorkerGlobalScope::worker
    guards,                              \* the AutoWorkerReset values alive, the newest last
    at,                                  \* where the worker thread is
    closing,                             \* the closing flag of the WorkerGlobalScope
    parent_sender,                       \* the tasks sent to the parent thread
    loaded,                              \* what load_whole_resource returned
    executed,                            \* how many times the worker script was executed
    observed,                            \* is_closing() has returned true
    message,                             \* the MixedMessage being handled
    handled,                             \* per message handled, the worker field before and after
    nevents,                             \* events delivered so far
    nchars,                              \* characters of text delivered so far
    kinds,                               \* per event, what was delivered
    blocks_inside,                       \* per event, block-level elements met while it was open
    children_log,                        \* per event, the inline-level boxes given to that inline box
    document,                            \* per event, what the traversal delivered and where
    pre,                                 \* the builder as it was before the last event
    last                                 \* the last event

builder == <<block_level_boxes, ongoing_inline_formatting_context,
             ongoing_inline_boxes_stack, anonymous_style, contains_floats>>
history == <<nevents, nchars, kinds, blocks_inside, children_log, document, pre, last>>
calls == <<container, content_sizes, pass, callers, returns, computed, style_lookups>>
thread == <<worker, guards, at, closing, parent_sender, loaded, executed, observed,
            message, handled>>
vars == <<limits, pc, text_loop, builder, box_slots, result, calls, history, thread>>

----------------------------------------------------------------------------
\* Strings.

IsWs(c) == c \in Whitespace

\* str.bytes().position(pred): the first index whose character satisfies pred, 0 if none.
PositionWs(s) ==
    IF \E i \in 1..Len(s) : IsWs(s[i])
    THEN CHOOSE i \in 1..Len(s) : IsWs(s[i]) /\ \A j \in 1..(i - 1) : ~IsWs(s[j])
    ELSE 0

PositionNonWs(s) ==
    IF \E i \in 1..Len(s) : ~IsWs(s[i])
    THEN CHOOSE i \in 1..Len(s) : ~IsWs(s[i]) /\ \A j \in 1..(i - 1) : IsWs(s[j])
    ELSE 0

StartsWithWs(s) == Len(s) > 0 /\ IsWs(s[1])

\* ends_with(' ') taken for false.
EndsWithSpaceNever(s) == FALSE

EndsWithSpace(s) == Len(s) > 0 /\ s[Len(s)] = " "

\* trim_start_matches trimming nothing.
TrimStartNothing(s) == s

\* str::trim_start_matches(is_ascii_whitespace)
TrimStart(s) ==
    LET i == PositionNonWs(s) IN IF i = 0 THEN <<>> ELSE SubSeq(s, i, Len(s))

----------------------------------------------------------------------------
\* Boxes.

TextRun(parent_style, text) ==
    [kind |-> "TextRun", parent_style |-> parent_style, text |-> text]

InlineBox(style, first_fragment, last_fragment, children) ==
    [kind |-> "InlineBox", style |-> style, first_fragment |-> first_fragment,
     last_fragment |-> last_fragment, children |-> children]

Atomic(style) == [kind |-> "Atomic", style |-> style]

OutOfFlowInline(kind, style) == [kind |-> kind, style |-> style]

Last(s) == s[Len(s)]
Front(s) == SubSeq(s, 1, Len(s) - 1)
Reverse(s) == [i \in 1..Len(s) |-> s[Len(s) + 1 - i]]

\* current_inline_level_boxes(): the children of the innermost open inline box,
\* or the boxes of the ongoing inline formatting context.
current_inline_level_boxes(stack, ifc) ==
    IF stack # <<>> THEN Last(stack).children ELSE ifc

\* Assignment through the &mut that current_inline_level_boxes() returns.
SetCurrentStack(stack, boxes) ==
    IF stack # <<>>
    THEN [stack EXCEPT ![Len(stack)].children = boxes]
    ELSE stack

SetCurrentIfc(stack, ifc, boxes) ==
    IF stack # <<>> THEN ifc ELSE boxes

\* has_ongoing_inline_formatting_context() looking at the inline formatting
\* context only, not at the stack.
HasOngoingIgnoringStack(stack, ifc) == ifc # <<>>

has_ongoing_inline_formatting_context(stack, ifc) ==
    ifc # <<>> \/ stack # <<>>

----------------------------------------------------------------------------
\* Text.

\* The loop of handle_leading_whitespace breaking false at an out-of-flow box.
RECURSIVE LeadingWhitespaceLoopStopsAtOutOfFlow(_, _)
LeadingWhitespaceLoopStopsAtOutOfFlow(boxes, stack) ==
    IF boxes = <<>>
    THEN IF stack # <<>>
         THEN LeadingWhitespaceLoopStopsAtOutOfFlow(Last(stack), Front(stack))
         ELSE FALSE
    ELSE LET b == Last(boxes) IN
         CASE b.kind = "TextRun" -> ~EndsWithSpace(b.text)
           [] b.kind = "Atomic" -> FALSE
           [] b.kind \in {"OutOfFlowAbsolutelyPositionedBox", "OutOfFlowFloatBox"} ->
                FALSE
           [] b.kind = "InlineBox" ->
                LeadingWhitespaceLoopStopsAtOutOfFlow(b.children, Append(stack, Front(boxes)))

\* The loop of handle_leading_whitespace: boxes is what the reversed iterator
\* has still to yield (it yields from the end), stack the suspended iterators.
RECURSIVE LeadingWhitespaceLoop(_, _)
LeadingWhitespaceLoop(boxes, stack) ==
    IF boxes = <<>>
    THEN IF stack # <<>>
         THEN LeadingWhitespaceLoop(Last(stack), Front(stack))
         ELSE FALSE
    ELSE LET b == Last(boxes) IN
         CASE b.kind = "TextRun" -> ~EndsWithSpace(b.text)
           [] b.kind = "Atomic" -> FALSE
           [] b.kind \in {"OutOfFlowAbsolutelyPositionedBox", "OutOfFlowFloatBox"} ->
                LeadingWhitespaceLoop(Front(boxes), stack)
           [] b.kind = "InlineBox" ->
                LeadingWhitespaceLoop(b.children, Append(stack, Front(boxes)))

\* handle_leading_whitespace with the paragraph start breaking true.
LeadingWhitespaceKeptAtStart(inlines, text) ==
    IF ~StartsWithWs(text)
    THEN [preserved |-> FALSE, text |-> text]
    ELSE [preserved |-> inlines = <<>> \/ LeadingWhitespaceLoop(inlines, <<>>),
          text |-> TrimStart(text)]

handle_leading_whitespace(inlines, text) ==
    IF ~StartsWithWs(text)
    THEN [preserved |-> FALSE, text |-> text]
    ELSE [preserved |-> LeadingWhitespaceLoop(inlines, <<>>), text |-> TrimStart(text)]

\* The loop of handle_text without output.push(' ').
RECURSIVE CollapseLoopNoSpace(_, _)
CollapseLoopNoSpace(output, input) ==
    LET i == PositionWs(input) IN
    IF i # 0
    THEN LET non_whitespace == SubSeq(input, 1, i - 1)
             rest == SubSeq(input, i, Len(input))
             pushed == output \o non_whitespace
             j == PositionNonWs(rest)
         IN  IF j # 0
             THEN CollapseLoopNoSpace(pushed, SubSeq(rest, j, Len(rest)))
             ELSE pushed
    ELSE output \o input

\* The loop of handle_text going on one character after the whitespace found,
\* not at the next character that is not whitespace.
RECURSIVE CollapseLoopByCharacter(_, _)
CollapseLoopByCharacter(output, input) ==
    LET i == PositionWs(input) IN
    IF i # 0
    THEN LET non_whitespace == SubSeq(input, 1, i - 1)
             rest == SubSeq(input, i, Len(input))
             pushed == (output \o non_whitespace) \o <<" ">>
         IN  IF Len(rest) > 1
             THEN CollapseLoopByCharacter(pushed, SubSeq(rest, 2, Len(rest)))
             ELSE pushed
    ELSE output \o input

\* The loop of handle_text that copies input to output, one whitespace run at a time.
RECURSIVE CollapseLoop(_, _)
CollapseLoop(output, input) ==
    LET i == PositionWs(input) IN
    IF i # 0
    THEN LET non_whitespace == SubSeq(input, 1, i - 1)
             rest == SubSeq(input, i, Len(input))
             pushed == (output \o non_whitespace) \o <<" ">>
             j == PositionNonWs(rest)
         IN  IF j # 0
             THEN CollapseLoop(pushed, SubSeq(rest, j, Len(rest)))
             ELSE pushed
    ELSE output \o input

\* One iteration of the loop going on at the whitespace found.
LoopIterationKeepsWhitespace(output, input) ==
    LET i == PositionWs(input) IN
    IF i # 0
    THEN LET non_whitespace == SubSeq(input, 1, i - 1)
             rest == SubSeq(input, i, Len(input))
             pushed == (output \o non_whitespace) \o <<" ">>
             j == PositionNonWs(rest)
         IN  IF j # 0
             THEN [output |-> pushed, input |-> rest, continues |-> TRUE]
             ELSE [output |-> pushed, input |-> input, continues |-> FALSE]
    ELSE [output |-> output \o input, input |-> input, continues |-> FALSE]

\* One iteration of the loop of handle_text: output and input after it, and
\* whether the loop goes on.
LoopIteration(output, input) ==
    LET i == PositionWs(input) IN
    IF i # 0
    THEN LET non_whitespace == SubSeq(input, 1, i - 1)
             rest == SubSeq(input, i, Len(input))
             pushed == (output \o non_whitespace) \o <<" ">>
             j == PositionNonWs(rest)
         IN  IF j # 0
             THEN [output |-> pushed, input |-> SubSeq(rest, j, Len(rest)),
                   continues |-> TRUE]
             ELSE [output |-> pushed, input |-> input, continues |-> FALSE]
    ELSE [output |-> output \o input, input |-> input, continues |-> FALSE]

\* handle_text without its test.
TextAlwaysKept(leading_whitespace, input) == TRUE

\* if leading_whitespace || !input.is_empty()
TextIsKept(leading_whitespace, input) == leading_whitespace \/ input # <<>>

\* last_text finding no text run, whatever the last box is.
LastTextNever(inlines) == None

\* fn last_text: the text of the last box if that box is a text run.
last_text(inlines) ==
    IF inlines # <<>> /\ Last(inlines).kind = "TextRun"
    THEN Some(Last(inlines).text)
    ELSE None

\* handle_text on the current inline-level boxes: the boxes afterwards.
handle_text(inlines, input, parent_style) ==
    LET lw == handle_leading_whitespace(inlines, input) IN
    IF TextIsKept(lw.preserved, lw.text)
    THEN LET appends == last_text(inlines) # None
             output == IF appends THEN last_text(inlines)[1] ELSE <<>>
             spaced == IF lw.preserved THEN Append(output, " ") ELSE output
             text == CollapseLoop(spaced, lw.text)
         IN  IF appends
             THEN [inlines EXCEPT ![Len(inlines)].text = text]
             ELSE Append(inlines, TextRun(parent_style, text))
    ELSE inlines

----------------------------------------------------------------------------
\* Block-level boxes found by the walk.

\* The display inside and the contents of an element decide which box the
\* builder makes; it hands them on to the constructors of other modules
\* unread, and the boxes of the model do not carry them.
Intermediate(kind, style) == [kind |-> kind, style |-> style]

\* One element of block_level_boxes: the intermediate box and its BoxSlot.
Entry(box, slot) == [box |-> box, slot |-> slot]

\* The fragment taken out marked as the last one.
FragmentedAsLast(ongoing) ==
    InlineBox(ongoing.style, ongoing.first_fragment, TRUE, ongoing.children)

\* The closure mapped over the stack by handle_block_level_element: the
\* fragment taken out of an ongoing inline box ...
Fragmented(ongoing) ==
    InlineBox(ongoing.style, ongoing.first_fragment, FALSE, ongoing.children)

\* The closure without ongoing.first_fragment = false.
AfterFragmentingStillFirst(ongoing) ==
    [ongoing EXCEPT !.children = <<>>]

\* The closure with the children cloned, not taken.
AfterFragmentingKeepsChildren(ongoing) ==
    [ongoing EXCEPT !.first_fragment = FALSE]

\* ... and what the closure leaves of the ongoing inline box.
AfterFragmenting(ongoing) ==
    [ongoing EXCEPT !.first_fragment = FALSE, !.children = <<>>]

\* The for loop that nests the fragments: parents are the remaining ongoing
\* inline boxes, innermost first.
RECURSIVE NestFragments(_, _)
NestFragments(fragmented_inline, parents) ==
    IF parents = <<>>
    THEN fragmented_inline
    ELSE LET parent == Fragmented(parents[1]) IN
         NestFragments(
             [parent EXCEPT !.children = Append(parent.children, fragmented_inline)],
             Tail(parents))

\* The box pushed to the ongoing inline formatting context (stack not empty).
FragmentedInline(stack) ==
    LET rev == Reverse(stack) IN NestFragments(Fragmented(rev[1]), Tail(rev))

\* end_ongoing_inline_formatting_context() without its early return.
EndOngoingAlsoWhenEmpty(boxes, ifc, anon) ==
    LET style == IF anon = None THEN style_for_anonymous(container) ELSE anon[1]
        box == [kind |-> "SameFormattingContextBlock", style |-> style,
                contents |-> [kind |-> "InlineFormattingContext",
                              inline_level_boxes |-> ifc]]
    IN  [block_level_boxes |-> Append(boxes, Entry(box, DummySlot)),
         ifc |-> <<>>,
         anonymous_style |-> Some(style),
         looked_up |-> anon = None]

\* end_ongoing_inline_formatting_context() putting the anonymous block first.
EndOngoingPushesFirst(boxes, ifc, anon) ==
    IF ifc = <<>>
    THEN [block_level_boxes |-> boxes, ifc |-> ifc, anonymous_style |-> anon,
          looked_up |-> FALSE]
    ELSE LET style == IF anon = None THEN style_for_anonymous(container) ELSE anon[1]
             box == [kind |-> "SameFormattingContextBlock", style |-> style,
                     contents |-> [kind |-> "InlineFormattingContext",
                                   inline_level_boxes |-> ifc]]
         IN  [block_level_boxes |-> <<Entry(box, DummySlot)>> \o boxes,
              ifc |-> <<>>,
              anonymous_style |-> Some(style),
              looked_up |-> anon = None]

\* end_ongoing_inline_formatting_context with insert_with for get_or_insert_with.
EndOngoingLooksUpEachTime(boxes, ifc, anon) ==
    IF ifc = <<>>
    THEN [block_level_boxes |-> boxes, ifc |-> ifc, anonymous_style |-> anon,
          looked_up |-> FALSE]
    ELSE LET style == style_for_anonymous(container)
             box == [kind |-> "SameFormattingContextBlock", style |-> style,
                     contents |-> [kind |-> "InlineFormattingContext",
                                   inline_level_boxes |-> ifc]]
         IN  [block_level_boxes |-> Append(boxes, Entry(box, DummySlot)),
              ifc |-> <<>>,
              anonymous_style |-> Some(style),
              looked_up |-> TRUE]

\* end_ongoing_inline_formatting_context dropping inline boxes without
\* children as if nothing were ongoing.
EndOngoingDropsEmptyInlineBoxes(boxes, ifc, anon) ==
    IF \A i \in 1..Len(ifc) : ifc[i].kind = "InlineBox" /\ ifc[i].children = <<>>
    THEN [block_level_boxes |-> boxes, ifc |-> <<>>, anonymous_style |-> anon,
          looked_up |-> FALSE]
    ELSE LET style == IF anon = None THEN style_for_anonymous(container) ELSE anon[1]
             box == [kind |-> "SameFormattingContextBlock", style |-> style,
                     contents |-> [kind |-> "InlineFormattingContext",
                                   inline_level_boxes |-> ifc]]
         IN  [block_level_boxes |-> Append(boxes, Entry(box, DummySlot)),
              ifc |-> <<>>,
              anonymous_style |-> Some(style),
              looked_up |-> anon = None]

\* end_ongoing_inline_formatting_context(): the three fields it may change,
\* and whether the closure of get_or_insert_with has run.
end_ongoing_inline_formatting_context(boxes, ifc, anon) ==
    IF ifc = <<>>
    THEN [block_level_boxes |-> boxes, ifc |-> ifc, anonymous_style |-> anon,
          looked_up |-> FALSE]
    ELSE LET style == IF anon = None THEN style_for_anonymous(container) ELSE anon[1]
             box == [kind |-> "SameFormattingContextBlock", style |-> style,
                     contents |-> [kind |-> "InlineFormattingContext",
                                   inline_level_boxes |-> ifc]]
         IN  [block_level_boxes |-> Append(boxes, Entry(box, DummySlot)),
              ifc |-> <<>>,
              anonymous_style |-> Some(style),
              looked_up |-> anon = None]

\* The match of handle_block_level_element with the last arm only.
BlockLevelAlwaysIndependent(style, display_inside, contents) ==
    [kind |-> "Independent", style |-> style]

\* The match of handle_block_level_element with one arm only.
BlockLevelAlwaysDeferred(style, display_inside, contents) ==
    [kind |-> "SameFormattingContextBlock", style |-> style,
     contents |-> [kind |-> "Deferred"]]

\* The match of handle_block_level_element on contents.try_into() and display_inside.
BlockLevelIntermediate(style, display_inside, contents) ==
    IF contents = "NonReplaced"
    THEN IF display_inside = "Flow"
         THEN [kind |-> "SameFormattingContextBlock", style |-> style,
               contents |-> [kind |-> "Deferred"]]
         ELSE Intermediate("Independent", style)
    ELSE Intermediate("Independent", style)

\* The test of construct without builder.block_level_boxes.is_empty().
ReturnsInlineWheneverNotEmpty(ifc, boxes) == ifc # <<>>

\* BlockContainer::construct after the traversal: does it return the ongoing
\* inline formatting context itself?
ReturnsInlineFormattingContext(ifc, boxes) == ifc # <<>> /\ boxes = <<>>

\* What a call of construct returns: the block container and whether it
\* contains floats.
Returned(block_container, floats) ==
    [container |-> block_container, contains_floats |-> floats]

\* A block container constructed elsewhere.
Constructed == [kind |-> "Constructed"]

\* finish handing on, for an Independent box too, what construct returned.
FinishAcrossIndependent(intermediate, sub) ==
    [box |-> IF intermediate.kind = "SameFormattingContextBlock"
             THEN [kind |-> "SameFormattingContextBlock",
                   style |-> intermediate.style,
                   contents |-> IF intermediate.contents.kind = "Deferred"
                                THEN sub.container
                                ELSE intermediate.contents]
             ELSE [kind |-> intermediate.kind, style |-> intermediate.style],
     contains_floats |->
         CASE intermediate.kind = "SameFormattingContextBlock" ->
                 IF intermediate.contents.kind = "Deferred"
                 THEN sub.contains_floats ELSE "No"
           [] intermediate.kind = "Independent" -> sub.contains_floats
           [] intermediate.kind = "OutOfFlowAbsolutelyPositionedBox" -> "No"
           [] intermediate.kind = "OutOfFlowFloatBox" -> "Yes"]

\* IntermediateBlockLevelBox::finish: the box, and whether it contains floats.
\* sub is what BlockContainer::construct returns for the deferred contents.
finish(intermediate, sub) ==
    CASE intermediate.kind = "SameFormattingContextBlock" ->
            IF intermediate.contents.kind = "Deferred"
            THEN [box |-> [kind |-> "SameFormattingContextBlock",
                           style |-> intermediate.style,
                           contents |-> sub.container],
                  contains_floats |-> sub.contains_floats]
            ELSE [box |-> [kind |-> "SameFormattingContextBlock",
                           style |-> intermediate.style,
                           contents |-> intermediate.contents],
                  contains_floats |-> "No"]
      [] intermediate.kind = "Independent" ->
            [box |-> [kind |-> "Independent", style |-> intermediate.style],
             contains_floats |-> "No"]
      [] intermediate.kind = "OutOfFlowAbsolutelyPositionedBox" ->
            [box |-> [kind |-> "OutOfFlowAbsolutelyPositionedBox",
                      style |-> intermediate.style],
             contains_floats |-> "No"]
      [] intermediate.kind = "OutOfFlowFloatBox" ->
            [box |-> [kind |-> "OutOfFlowFloatBox", style |-> intermediate.style],
             contains_floats |-> "Yes"]

\* impl BitOrAssign for ContainsFloats
BitOr(a, b) == IF b = "Yes" THEN "Yes" ELSE a

----------------------------------------------------------------------------
\* The record of what was delivered.

Snapshot ==
    [block_level_boxes |-> block_level_boxes,
     ongoing_inline_formatting_context |-> ongoing_inline_formatting_context,
     ongoing_inline_boxes_stack |-> ongoing_inline_boxes_stack,
     anonymous_style |-> anonymous_style,
     contains_floats |-> contains_floats]

\* The style handed to the traversal of the children being delivered.
ParentStyle ==
    IF ongoing_inline_boxes_stack = <<>>
    THEN container
    ELSE Last(ongoing_inline_boxes_stack).style

\* The log of the innermost open inline box after its children went from old to new.
LogAfter(log, stack, old, new) ==
    IF stack = <<>> \/ new = old
    THEN log
    ELSE LET e == Last(stack).style IN
         IF Len(new) = Len(old) + 1
         THEN [log EXCEPT ![e] = Append(@, Last(new))]
         ELSE [log EXCEPT ![e] = Append(Front(@), Last(new))]

\* An event (text or element) of the given kind is delivered.
Delivered(kind) ==
    /\ nevents' = nevents + 1
    /\ kinds' = Append(kinds, kind)
    /\ pre' = Snapshot

\* The event is written down where the walk keeps the document: its text or
\* its display inside and contents, and the element whose children are
\* being traversed.
Documented(text, display_inside, contents) ==
    document' =
        IF limits.document
        THEN Append(document, [container |-> container, parent |-> ParentStyle,
                               text |-> text, display_inside |-> display_inside,
                               contents |-> contents])
        ELSE document

\* ContentSizesRequest: "Inline" or "None".
requests_inline(request) == request = "Inline"

\* inline_if asking for the sizes whatever the condition.
InlineIfAlways(condition) == "Inline"

\* ContentSizesRequest::inline_if
inline_if(condition) == IF condition THEN "Inline" ELSE "None"

\* The inline content sizes of a box or of an inline formatting context are
\* asked for with the request, which is written down where the walk keeps
\* what was asked for.
Computed(request, kind, style) ==
    computed' =
        IF limits.computed /\ request = "Inline"
        THEN computed \cup {[kind |-> kind, style |-> style]}
        ELSE computed

\* The style system is asked for the anonymous style of the container once
\* more, if the closure of get_or_insert_with has run.
LookedUp(ended) ==
    style_lookups' =
        IF ended.looked_up THEN Append(style_lookups, container) ELSE style_lookups

\* An element is pushed to the current inline-level boxes and set in its slot.
PushInlineLevel(box) ==
    LET stack == ongoing_inline_boxes_stack
        ifc == ongoing_inline_formatting_context
        old == current_inline_level_boxes(stack, ifc)
        new == Append(old, box)
    IN  /\ ongoing_inline_boxes_stack' = SetCurrentStack(stack, new)
        /\ ongoing_inline_formatting_context' = SetCurrentIfc(stack, ifc, new)
        /\ children_log' = LogAfter(Append(children_log, <<>>), stack, old, new)
        /\ box_slots' = Append(box_slots, <<box>>)

----------------------------------------------------------------------------
\* The walk.

InitFrom(lim) ==
    /\ limits = lim
    /\ pc = "walk"
    /\ block_level_boxes = <<>>
    /\ ongoing_inline_formatting_context = <<>>
    /\ ongoing_inline_boxes_stack = <<>>
    /\ anonymous_style = None
    /\ contains_floats = "No"
    /\ box_slots = <<>>
    /\ result = [kind |-> "None"]
    /\ container = ContainerStyle
    /\ content_sizes \in lim.requests
    /\ pass = [segments |-> <<>>, mapped |-> <<>>]
    /\ callers = <<>>
    /\ returns = {}
    /\ computed = {}
    /\ style_lookups = <<>>
    /\ text_loop = None
    /\ worker = None
    /\ guards = <<>>
    /\ at = "load"
    /\ closing = FALSE
    /\ parent_sender = <<>>
    /\ loaded = "Pending"
    /\ executed = 0
    /\ observed = FALSE
    /\ message = None
    /\ handled = <<>>
    /\ nevents = 0
    /\ nchars = 0
    /\ kinds = <<>>
    /\ blocks_inside = <<>>
    /\ children_log = <<>>
    /\ document = <<>>
    /\ pre = [block_level_boxes |-> <<>>,
              ongoing_inline_formatting_context |-> <<>>,
              ongoing_inline_boxes_stack |-> <<>>,
              anonymous_style |-> None,
              contains_floats |-> "No"]
    /\ last = [kind |-> "none"]

InitWith(max_events, max_chars, max_depth, alphabet) ==
    InitFrom([events |-> max_events, chars |-> max_chars, depth |-> max_depth,
              alphabet |-> alphabet, document |-> FALSE, computed |-> FALSE,
              arcs |-> FALSE, requests |-> {"None"}])

\* Arc::new(InlineLevelBox::TextRun(..)): the text run the builder has just
\* pushed, with the allocation it lives in. No two allocations are the same
\* one, and the event that makes it names it.
ArcNew(inlines, allocation) ==
    [inlines EXCEPT ![Len(inlines)] =
        [kind |-> @.kind, parent_style |-> @.parent_style, text |-> @.text,
         arc |-> allocation]]

\* handle_text
HandleText(input) ==
    /\ pc = "walk"
    /\ nevents < limits.events
    /\ LET stack == ongoing_inline_boxes_stack
           ifc == ongoing_inline_formatting_context
           old == current_inline_level_boxes(stack, ifc)
           pushed == handle_text(old, input, ParentStyle)
           new == IF limits.arcs /\ Len(pushed) > Len(old)
                  THEN ArcNew(pushed, nevents + 1) ELSE pushed
       IN  /\ ongoing_inline_boxes_stack' = SetCurrentStack(stack, new)
           /\ ongoing_inline_formatting_context' = SetCurrentIfc(stack, ifc, new)
           /\ children_log' = LogAfter(Append(children_log, <<>>), stack, old, new)
           /\ last' = [kind |-> "text", input |-> input,
                       preserved |-> handle_leading_whitespace(old, input).preserved]
    /\ nchars' = nchars + Len(input)
    /\ box_slots' = Append(box_slots, <<>>)
    /\ blocks_inside' = Append(blocks_inside, 0)
    /\ Delivered("text")
    /\ Documented(input, "", "")
    /\ UNCHANGED <<limits, thread, text_loop, calls, pc, block_level_boxes, anonymous_style, contains_floats, result>>

\* handle_text up to its loop.
HandleTextBegin(input) ==
    /\ pc = "walk"
    /\ nevents < limits.events
    /\ LET old == current_inline_level_boxes(ongoing_inline_boxes_stack,
                                             ongoing_inline_formatting_context)
           lw == handle_leading_whitespace(old, input)
           appends == last_text(old) # None
           output == IF appends THEN last_text(old)[1] ELSE <<>>
       IN  /\ IF TextIsKept(lw.preserved, lw.text)
              THEN /\ text_loop' =
                          Some([input |-> lw.text,
                                output |-> IF lw.preserved THEN Append(output, " ")
                                           ELSE output,
                                appends |-> appends,
                                parent_style |-> ParentStyle])
                   /\ pc' = "text"
              ELSE /\ text_loop' = None
                   /\ pc' = "walk"
           /\ last' = [kind |-> "text", input |-> input, preserved |-> lw.preserved]
    /\ nchars' = nchars + Len(input)
    /\ box_slots' = Append(box_slots, <<>>)
    /\ blocks_inside' = Append(blocks_inside, 0)
    /\ children_log' = Append(children_log, <<>>)
    /\ Delivered("text")
    /\ Documented(input, "", "")
    /\ UNCHANGED <<limits, thread, calls, builder, result>>

\* One iteration of the loop of handle_text and, when the loop breaks, the
\* push of the new text run.
HandleTextLoop ==
    /\ pc = "text"
    /\ LET loop == text_loop[1]
           iteration == LoopIteration(loop.output, loop.input)
           stack == ongoing_inline_boxes_stack
           ifc == ongoing_inline_formatting_context
           old == current_inline_level_boxes(stack, ifc)
           new == IF loop.appends
                  THEN [old EXCEPT ![Len(old)].text = iteration.output]
                  ELSE Append(old, TextRun(loop.parent_style, iteration.output))
       IN  IF iteration.continues
           THEN /\ text_loop' = Some([loop EXCEPT !.input = iteration.input,
                                                  !.output = iteration.output])
                /\ UNCHANGED <<pc, ongoing_inline_boxes_stack,
                               ongoing_inline_formatting_context, children_log>>
           ELSE /\ text_loop' = None
                /\ pc' = "walk"
                /\ ongoing_inline_boxes_stack' = SetCurrentStack(stack, new)
                /\ ongoing_inline_formatting_context' = SetCurrentIfc(stack, ifc, new)
                /\ children_log' = LogAfter(children_log, stack, old, new)
    /\ UNCHANGED <<limits, thread, calls, block_level_boxes, anonymous_style, contains_floats,
                   box_slots, result, nevents, nchars, kinds, blocks_inside, document,
                   pre, last>>

\* handle_element, DisplayOutside::Inline: handle_inline_level_element up to
\* the traversal of the children of an inline box.
InlineBoxBegin(display_inside, contents) ==
    /\ pc = "walk"
    /\ nevents < limits.events
    /\ Len(ongoing_inline_boxes_stack) < limits.depth
    /\ display_inside = "Flow" /\ contents = "NonReplaced"
    /\ ongoing_inline_boxes_stack' =
           Append(ongoing_inline_boxes_stack, InlineBox(nevents + 1, TRUE, FALSE, <<>>))
    /\ box_slots' = Append(box_slots, <<>>)
    /\ blocks_inside' = Append(blocks_inside, 0)
    /\ children_log' = Append(children_log, <<>>)
    /\ last' = [kind |-> "inline_box"]
    /\ Delivered("inline_box")
    /\ Documented(<<>>, display_inside, contents)
    /\ UNCHANGED <<limits, thread, text_loop, calls, pc, block_level_boxes, ongoing_inline_formatting_context,
                   anonymous_style, contains_floats, result, nchars>>

\* handle_inline_level_element reading the last frame instead of popping it.
InlineBoxEndWithoutPop ==
    /\ pc = "walk"
    /\ ongoing_inline_boxes_stack # <<>>
    /\ LET popped == Last(ongoing_inline_boxes_stack)
           stack == ongoing_inline_boxes_stack
           ifc == ongoing_inline_formatting_context
           box_ == [popped EXCEPT !.last_fragment = TRUE]
           old == current_inline_level_boxes(stack, ifc)
           new == Append(old, box_)
       IN  /\ ongoing_inline_boxes_stack' = SetCurrentStack(stack, new)
           /\ ongoing_inline_formatting_context' = SetCurrentIfc(stack, ifc, new)
           /\ children_log' = LogAfter(children_log, stack, old, new)
           /\ box_slots' = [box_slots EXCEPT ![popped.style] = Append(@, box_)]
           /\ last' = [kind |-> "inline_box_end", style |-> popped.style]
    /\ pre' = Snapshot
    /\ UNCHANGED <<limits, thread, text_loop, calls, pc, block_level_boxes, anonymous_style, contains_floats, result,
                   nevents, nchars, kinds, blocks_inside, document>>

\* handle_inline_level_element once the children of the inline box are
\* traversed, and the box_slot.set of handle_element.
InlineBoxEnd ==
    /\ pc = "walk"
    /\ ongoing_inline_boxes_stack # <<>>
    /\ LET popped == Last(ongoing_inline_boxes_stack)
           stack == Front(ongoing_inline_boxes_stack)
           ifc == ongoing_inline_formatting_context
           box_ == [popped EXCEPT !.last_fragment = TRUE]
           old == current_inline_level_boxes(stack, ifc)
           new == Append(old, box_)
       IN  /\ ongoing_inline_boxes_stack' = SetCurrentStack(stack, new)
           /\ ongoing_inline_formatting_context' = SetCurrentIfc(stack, ifc, new)
           /\ children_log' = LogAfter(children_log, stack, old, new)
           /\ box_slots' = [box_slots EXCEPT ![popped.style] = Append(@, box_)]
           /\ last' = [kind |-> "inline_box_end", style |-> popped.style]
    /\ pre' = Snapshot
    /\ UNCHANGED <<limits, thread, text_loop, calls, pc, block_level_boxes, anonymous_style, contains_floats, result,
                   nevents, nchars, kinds, blocks_inside, document>>

\* handle_element, DisplayOutside::Inline: handle_inline_level_element for
\* replaced contents or a display inside other than flow.
InlineAtomic(display_inside, contents) ==
    /\ pc = "walk"
    /\ nevents < limits.events
    /\ ~(display_inside = "Flow" /\ contents = "NonReplaced")
    /\ PushInlineLevel(Atomic(nevents + 1))
    /\ \E inline_size_is_auto \in BOOLEAN :
           Computed(inline_if(inline_size_is_auto), "Atomic", nevents + 1)
    /\ blocks_inside' = Append(blocks_inside, 0)
    /\ last' = [kind |-> "atomic"]
    /\ Delivered("atomic")
    /\ Documented(<<>>, display_inside, contents)
    /\ UNCHANGED <<limits, thread, text_loop, container, content_sizes, pass, callers, returns, style_lookups,
                   pc, block_level_boxes, anonymous_style, contains_floats, result, nchars>>

\* The out-of-flow element setting its slot also when its box is deferred.
OutOfFlowSetsSlotWhenDeferred(kind, display_inside, contents) ==
    IF ~has_ongoing_inline_formatting_context(ongoing_inline_boxes_stack,
                                              ongoing_inline_formatting_context)
    THEN /\ block_level_boxes' =
                Append(block_level_boxes,
                       Entry(Intermediate(kind, nevents + 1),
                             nevents + 1))
         /\ box_slots' = Append(box_slots, <<OutOfFlowInline(kind, nevents + 1)>>)
         /\ children_log' = Append(children_log, <<>>)
         /\ UNCHANGED <<ongoing_inline_boxes_stack, ongoing_inline_formatting_context>>
    ELSE /\ PushInlineLevel(OutOfFlowInline(kind, nevents + 1))
         /\ UNCHANGED block_level_boxes

\* The out-of-flow handlers ending an ongoing inline formatting context
\* outside every inline box, and deferring the box after its anonymous block.
OutOfFlowEndsOngoing(kind, display_inside, contents) ==
    IF ongoing_inline_boxes_stack # <<>>
    THEN /\ PushInlineLevel(OutOfFlowInline(kind, nevents + 1))
         /\ UNCHANGED block_level_boxes
    ELSE LET ended == end_ongoing_inline_formatting_context(
                          block_level_boxes, ongoing_inline_formatting_context,
                          anonymous_style)
         IN  /\ block_level_boxes' =
                    Append(ended.block_level_boxes,
                           Entry(Intermediate(kind, nevents + 1), nevents + 1))
             /\ ongoing_inline_formatting_context' = ended.ifc
             /\ box_slots' = Append(box_slots, <<>>)
             /\ children_log' = Append(children_log, <<>>)
             /\ UNCHANGED ongoing_inline_boxes_stack

\* handle_absolutely_positioned_element and handle_float_element after the
\* float has set contains_floats: defer the box, or push it inline.
OutOfFlow(kind, display_inside, contents) ==
    IF ~has_ongoing_inline_formatting_context(ongoing_inline_boxes_stack,
                                              ongoing_inline_formatting_context)
    THEN /\ block_level_boxes' =
                Append(block_level_boxes,
                       Entry(Intermediate(kind, nevents + 1),
                             nevents + 1))
         /\ box_slots' = Append(box_slots, <<>>)
         /\ children_log' = Append(children_log, <<>>)
         /\ UNCHANGED <<ongoing_inline_boxes_stack, ongoing_inline_formatting_context>>
    ELSE /\ PushInlineLevel(OutOfFlowInline(kind, nevents + 1))
         /\ UNCHANGED block_level_boxes

\* handle_element, DisplayOutside::Block, position absolutely positioned
HandleAbsolutelyPositionedElement(display_inside, contents) ==
    /\ pc = "walk"
    /\ nevents < limits.events
    /\ OutOfFlow("OutOfFlowAbsolutelyPositionedBox", display_inside, contents)
    /\ blocks_inside' = Append(blocks_inside, 0)
    /\ last' = [kind |-> "abspos"]
    /\ Delivered("abspos")
    /\ Documented(<<>>, display_inside, contents)
    /\ UNCHANGED <<limits, thread, text_loop, calls, pc, anonymous_style, contains_floats, result, nchars>>

\* handle_element, DisplayOutside::Block, floating
HandleFloatElement(display_inside, contents) ==
    /\ pc = "walk"
    /\ nevents < limits.events
    /\ contains_floats' = "Yes"
    /\ OutOfFlow("OutOfFlowFloatBox", display_inside, contents)
    /\ blocks_inside' = Append(blocks_inside, 0)
    /\ last' = [kind |-> "float"]
    /\ Delivered("float")
    /\ Documented(<<>>, display_inside, contents)
    /\ UNCHANGED <<limits, thread, text_loop, calls, pc, anonymous_style, result, nchars>>

\* The fragment of the k-th open inline box as the block-level element leaves
\* it in the box tree: its children, then the fragment of the box opened in it.
RECURSIVE FragmentOf(_, _)
FragmentOf(stack, k) ==
    InlineBox(stack[k].style, stack[k].first_fragment, FALSE,
              IF k < Len(stack)
              THEN Append(stack[k].children, FragmentOf(stack, k + 1))
              ELSE stack[k].children)

\* handle_element, DisplayOutside::Block, in normal flow
HandleBlockLevelElement(display_inside, contents) ==
    /\ pc = "walk"
    /\ nevents < limits.events
    /\ LET stack == ongoing_inline_boxes_stack
           ifc == IF stack # <<>>
                  THEN Append(ongoing_inline_formatting_context, FragmentedInline(stack))
                  ELSE ongoing_inline_formatting_context
           ended == end_ongoing_inline_formatting_context(
                        block_level_boxes, ifc, anonymous_style)
           open == {stack[k].style : k \in 1..Len(stack)}
       IN  /\ ongoing_inline_boxes_stack' =
                  [k \in 1..Len(stack) |-> AfterFragmenting(stack[k])]
           /\ ongoing_inline_formatting_context' = ended.ifc
           /\ anonymous_style' = ended.anonymous_style
           /\ LookedUp(ended)
           /\ block_level_boxes' =
                  Append(ended.block_level_boxes,
                         Entry(BlockLevelIntermediate(nevents + 1, display_inside, contents),
                               nevents + 1))
           /\ blocks_inside' =
                  Append([e \in 1..nevents |->
                             IF e \in open THEN blocks_inside[e] + 1 ELSE blocks_inside[e]],
                         0)
           /\ children_log' =
                  Append([e \in 1..nevents |->
                             IF \E k \in 1..(Len(stack) - 1) : stack[k].style = e
                             THEN LET k == CHOOSE k \in 1..(Len(stack) - 1) : stack[k].style = e
                                  IN  Append(children_log[e], FragmentOf(stack, k + 1))
                             ELSE children_log[e]],
                         <<>>)
    /\ box_slots' = Append(box_slots, <<>>)
    /\ last' = [kind |-> "block", display_inside |-> display_inside,
                contents |-> contents]
    /\ Delivered("block")
    /\ Documented(<<>>, display_inside, contents)
    /\ UNCHANGED <<limits, thread, text_loop, container, content_sizes, pass, callers, returns, computed, pc, contains_floats,
                   result, nchars>>

----------------------------------------------------------------------------
\* BlockContainer::construct once contents.traverse has returned.

RECURSIVE FoldContainsFloats(_, _)
FoldContainsFloats(acc, finished) ==
    IF finished = <<>>
    THEN acc
    ELSE FoldContainsFloats(BitOr(acc, finished[1].contains_floats), Tail(finished))

Construct ==
    /\ pc = "walk"
    /\ ongoing_inline_boxes_stack = <<>>
    /\ pc' = "done"
    /\ pre' = Snapshot
    /\ last' = [kind |-> "construct"]
    /\ IF ReturnsInlineFormattingContext(ongoing_inline_formatting_context, block_level_boxes)
       THEN /\ result' = [kind |-> "InlineFormattingContext",
                          inline_level_boxes |-> ongoing_inline_formatting_context,
                          contains_floats |-> contains_floats]
            /\ UNCHANGED <<block_level_boxes, ongoing_inline_formatting_context,
                           anonymous_style, box_slots, style_lookups>>
       ELSE LET ended == IF ongoing_inline_formatting_context # <<>>
                         THEN end_ongoing_inline_formatting_context(
                                  block_level_boxes, ongoing_inline_formatting_context,
                                  anonymous_style)
                         ELSE [block_level_boxes |-> block_level_boxes,
                               ifc |-> ongoing_inline_formatting_context,
                               anonymous_style |-> anonymous_style,
                               looked_up |-> FALSE]
                boxes == ended.block_level_boxes
                deferred == {i \in 1..Len(boxes) :
                                /\ boxes[i].box.kind = "SameFormattingContextBlock"
                                /\ boxes[i].box.contents.kind = "Deferred"}
            IN  \E sub \in [1..Len(boxes) -> {"No", "Yes"}] :
                    /\ \A i \in 1..Len(boxes) : i \notin deferred => sub[i] = "No"
                    /\ LET finished == [i \in 1..Len(boxes) |->
                                           finish(boxes[i].box, Returned(Constructed, sub[i]))]
                       IN  /\ result' = [kind |-> "BlockLevelBoxes",
                                         boxes |-> [i \in 1..Len(boxes) |-> finished[i].box],
                                         contains_floats |->
                                             FoldContainsFloats(contains_floats, finished)]
                           /\ box_slots' =
                                  [e \in 1..nevents |->
                                      IF \E i \in 1..Len(boxes) : boxes[i].slot = e
                                      THEN LET i == CHOOSE i \in 1..Len(boxes) : boxes[i].slot = e
                                           IN  Append(box_slots[e], finished[i].box)
                                      ELSE box_slots[e]]
                    /\ block_level_boxes' = boxes
                    /\ ongoing_inline_formatting_context' = ended.ifc
                    /\ anonymous_style' = ended.anonymous_style
                    /\ LookedUp(ended)
    /\ UNCHANGED <<limits, thread, text_loop, container, content_sizes, pass, callers, returns, computed,
                   ongoing_inline_boxes_stack, contains_floats,
                   nevents, nchars, kinds, blocks_inside, children_log, document>>

Next ==
    \/ \E input \in Strings(limits.alphabet, limits.chars - nchars) : HandleText(input)
    \/ \E d \in DisplayInsides, c \in ContentsKinds : InlineBoxBegin(d, c)
    \/ InlineBoxEnd
    \/ \E d \in DisplayInsides, c \in ContentsKinds : InlineAtomic(d, c)
    \/ \E d \in DisplayInsides, c \in ContentsKinds : HandleAbsolutelyPositionedElement(d, c)
    \/ \E d \in DisplayInsides, c \in ContentsKinds : HandleFloatElement(d, c)
    \/ \E d \in DisplayInsides, c \in ContentsKinds : HandleBlockLevelElement(d, c)
    \/ Construct

\* Many events, little text.
Init == InitWith(MaxEvents, MaxChars, MaxDepth, FewChars)
Spec == Init /\ [][Next]_vars

\* Few events, long texts.
InitText == InitWith(MaxTextEvents, MaxTextChars, MaxTextDepth, Chars)
SpecText == InitText /\ [][Next]_vars

\* The same events, each text run with its allocation.
InitArcs ==
    InitFrom([events |-> MaxArcEvents, chars |-> MaxArcChars, depth |-> MaxArcDepth,
              alphabet |-> FewChars, document |-> FALSE, computed |-> FALSE,
              arcs |-> TRUE, requests |-> {"None"}])
\* The operations of the builder that push, move or hand out inline-level
\* boxes: text, inline boxes, atomic inline-level elements, out-of-flow
\* elements, and block-level elements, which fragment the open inline boxes.
NextArcs ==
    \/ \E input \in Strings(limits.alphabet, limits.chars - nchars) : HandleText(input)
    \/ InlineBoxBegin("Flow", "NonReplaced")
    \/ InlineBoxEnd
    \/ InlineAtomic("FlowRoot", "NonReplaced")
    \/ HandleAbsolutelyPositionedElement("Flow", "NonReplaced")
    \/ HandleFloatElement("Flow", "NonReplaced")
    \/ HandleBlockLevelElement("Flow", "NonReplaced")
    \/ Construct

SpecArcs == InitArcs /\ [][NextArcs]_vars

\* The texts of the examples; the elements of the examples, which are not
\* replaced: inline boxes (<b>, <span>), inline-level elements that are not
\* flow inside, block-level elements in normal flow that are (<div>).
NextExample ==
    \/ \E input \in ExampleTexts : HandleText(input)
    \/ InlineBoxBegin("Flow", "NonReplaced")
    \/ InlineBoxEnd
    \/ InlineAtomic("FlowRoot", "NonReplaced")
    \/ HandleBlockLevelElement("Flow", "NonReplaced")
    \/ Construct

InitExample ==
    InitFrom([events |-> MaxExampleEvents, chars |-> 0, depth |-> MaxExampleDepth,
              alphabet |-> {}, document |-> TRUE, computed |-> FALSE, arcs |-> FALSE,
              requests |-> {"None"}])
SpecExample == InitExample /\ [][NextExample]_vars

----------------------------------------------------------------------------
\* BlockContainer::construct step by step: the calls of construct made by the
\* finish pass, and the finish pass itself, which rayon runs in parallel.

\* ContentSizes: min-content and max-content, the first at most the second.
\* Three of them, the last two such that neither is the max of both.
ContentSizes ==
    {[min_content |-> 0, max_content |-> 0],
     [min_content |-> 0, max_content |-> 2],
     [min_content |-> 1, max_content |-> 1]}

\* ContentSizes::zero()
Zero == [min_content |-> 0, max_content |-> 0]

Max(a, b) == IF a >= b THEN a ELSE b

\* ContentSizes::max_assign
max_assign(to, other) ==
    [min_content |-> Max(to.min_content, other.min_content),
     max_content |-> Max(to.max_content, other.max_content)]

\* ContentSizesRequest::compute
compute(request, sizes) ==
    IF requests_inline(request)
    THEN [kind |-> "Inline", sizes |-> sizes]
    ELSE [kind |-> "NoneRequested"]

\* struct Target and impl Default for Target
Target(floats, sizes) ==
    [contains_floats |-> floats, outer_content_sizes_of_children |-> sizes]
TargetDefault == Target("No", Zero)

\* The first closure of mapfold_reduce_into without target.contains_floats |= ...
MapFoldForgetsFloats(target, box_contains_floats, contribution) ==
    Target(target.contains_floats,
           IF contribution = None
           THEN target.outer_content_sizes_of_children
           ELSE max_assign(target.outer_content_sizes_of_children, contribution[1]))

\* The first closure of mapfold_reduce_into, on the target of its fold:
\* contribution is what finish max-assigns through the reference it is given,
\* None if it is given none or assigns nothing.
MapFold(target, box_contains_floats, contribution) ==
    Target(BitOr(target.contains_floats, box_contains_floats),
           IF contribution = None
           THEN target.outer_content_sizes_of_children
           ELSE max_assign(target.outer_content_sizes_of_children, contribution[1]))

\* The second closure with left.contains_floats = right.contains_floats.
ReduceTakesRight(left, right, request) ==
    Target(right.contains_floats,
           IF requests_inline(request)
           THEN max_assign(left.outer_content_sizes_of_children,
                           right.outer_content_sizes_of_children)
           ELSE left.outer_content_sizes_of_children)

\* The second closure of mapfold_reduce_into.
Reduce(left, right, request) ==
    Target(BitOr(left.contains_floats, right.contains_floats),
           IF requests_inline(request)
           THEN max_assign(left.outer_content_sizes_of_children,
                           right.outer_content_sizes_of_children)
           ELSE left.outer_content_sizes_of_children)

\* collect() putting first what was ready first.
CollectRightFirst(left, right) == right \o left

\* iter.collect(): the boxes of two neighbouring parts of the sequence.
Collect(left, right) == left \o right

\* One part of block_level_boxes, lo..hi, folded by one job: next is the item
\* it folds next, target the Target of its fold, out the boxes it has mapped,
\* jobs the number of folds it was reduced from.
Segment(lo, hi, target) ==
    [lo |-> lo, hi |-> hi, next |-> lo, target |-> target, out |-> <<>>, jobs |-> 1]

Complete(segment) == segment.next > segment.hi

\* The box needs a call of construct for the children of its element:
\* IntermediateBlockContainer::finish calls BlockContainer::construct for
\* Deferred contents, BlockFormattingContext::construct calls it for the
\* contents, not replaced, of an independent formatting context.
NeedsConstruct(box) ==
    \/ box.kind = "SameFormattingContextBlock" /\ box.contents.kind = "Deferred"
    \/ box.kind = "Independent" /\ document[box.style].contents = "NonReplaced"

\* finish max-assigning for floats and absolutely positioned boxes too.
ContributesAlsoOutOfFlow(box) == TRUE

\* finish max-assigns the outer inline sizes of these boxes, if it is asked to.
Contributes(box) == box.kind \in {"SameFormattingContextBlock", "Independent"}

Contributions(request, box) ==
    IF requests_inline(request) /\ Contributes(box)
    THEN {Some(sizes) : sizes \in ContentSizes}
    ELSE {None}

\* The request finish hands on for the contents of the box: none for a float
\* or an absolutely positioned box.
Passed(request, box, inline_size_is_auto) ==
    IF Contributes(box)
    THEN inline_if(requests_inline(request) /\ inline_size_is_auto)
    ELSE "None"

\* What the request is handed to: the inline formatting context of an
\* anonymous block, or an independent formatting context.
ContentsKind(box) ==
    IF box.kind = "SameFormattingContextBlock"
    THEN "InlineFormattingContext"
    ELSE box.kind

\* The item is mapped and folded: what becomes of the pass.
Folded(p, k, finished, request, contribution) ==
    LET segment == p.segments[k] IN
    [segments |->
        [p.segments EXCEPT ![k] =
            [segment EXCEPT
                !.next = @ + 1,
                !.target = MapFold(@, finished.contains_floats, contribution),
                !.out = Append(@, finished.box)]],
     mapped |->
        [p.mapped EXCEPT ![segment.next] =
            Some([box |-> finished.box,
                  contains_floats |-> finished.contains_floats,
                  request |-> request,
                  contribution |-> contribution])]]

\* The slot of every deferred box taken for a dummy.
SlotSetNever(slots, slot, box) == slots

\* box_slot.set(LayoutBox::BlockLevel(block_level_box.clone()))
SlotSet(slots, slot, box) ==
    IF slot = DummySlot THEN slots ELSE [slots EXCEPT ![slot] = Append(@, box)]

Stepped(kind) ==
    /\ pre' = Snapshot
    /\ last' = [kind |-> kind]
    /\ UNCHANGED <<limits, thread, text_loop, nevents, nchars, kinds, blocks_inside, children_log, document>>

\* BlockContainer::construct from the return of the traversal to the start of
\* the finish pass, or to the early return.
ConstructBegin ==
    /\ pc = "walk"
    /\ ongoing_inline_boxes_stack = <<>>
    /\ IF ReturnsInlineFormattingContext(ongoing_inline_formatting_context, block_level_boxes)
       THEN /\ \E sizes \in IF requests_inline(content_sizes) THEN ContentSizes ELSE {Zero} :
                   result' = [kind |-> "InlineFormattingContext",
                              inline_level_boxes |-> ongoing_inline_formatting_context,
                              contains_floats |-> contains_floats,
                              content_sizes |-> compute(content_sizes, sizes)]
            /\ returns' = returns \cup
                   {[container |-> container, contains_floats |-> contains_floats]}
            /\ Computed(content_sizes, "InlineFormattingContext", container)
            /\ pc' = "done"
            /\ UNCHANGED <<builder, pass, style_lookups>>
       ELSE LET ended == IF ongoing_inline_formatting_context # <<>>
                         THEN end_ongoing_inline_formatting_context(
                                  block_level_boxes, ongoing_inline_formatting_context,
                                  anonymous_style)
                         ELSE [block_level_boxes |-> block_level_boxes,
                               ifc |-> ongoing_inline_formatting_context,
                               anonymous_style |-> anonymous_style,
                               looked_up |-> FALSE]
                n == Len(ended.block_level_boxes)
            IN  /\ block_level_boxes' = ended.block_level_boxes
                /\ ongoing_inline_formatting_context' = ended.ifc
                /\ anonymous_style' = ended.anonymous_style
                /\ LookedUp(ended)
                /\ pass' = [segments |-> <<Segment(1, n, Target(contains_floats, Zero))>>,
                            mapped |-> [i \in 1..n |-> None]]
                /\ pc' = "finish"
                /\ UNCHANGED <<ongoing_inline_boxes_stack, contains_floats, result, returns,
                               computed>>
    /\ Stepped("construct")
    /\ UNCHANGED <<box_slots, container, content_sizes, callers>>

\* rayon splits a part no job has begun: the left part goes on with the
\* target, the right part gets Target::default().
Split(k, mid) ==
    /\ pc = "finish"
    /\ k \in 1..Len(pass.segments)
    /\ LET segment == pass.segments[k] IN
       /\ segment.next = segment.lo
       /\ segment.lo <= mid /\ mid < segment.hi
       /\ pass' = [pass EXCEPT !.segments =
                      (SubSeq(@, 1, k - 1)
                          \o <<Segment(segment.lo, mid, segment.target),
                               Segment(mid + 1, segment.hi, TargetDefault)>>)
                          \o SubSeq(@, k + 1, Len(@))]
    /\ Stepped("split")
    /\ UNCHANGED <<pc, builder, box_slots, result, container, content_sizes, callers, returns,
                   computed, style_lookups>>

\* The first closure for a box that needs no call of construct.
FinishItem(k) ==
    /\ pc = "finish"
    /\ k \in 1..Len(pass.segments)
    /\ ~Complete(pass.segments[k])
    /\ LET item == block_level_boxes[pass.segments[k].next]
           finished == finish(item.box, Returned(Constructed, "No"))
       IN  /\ ~NeedsConstruct(item.box)
           /\ \E inline_size_is_auto \in BOOLEAN :
                  LET request == Passed(content_sizes, item.box, inline_size_is_auto) IN
                  /\ \E contribution \in Contributions(content_sizes, item.box) :
                         pass' = Folded(pass, k, finished, request, contribution)
                  /\ Computed(request, ContentsKind(item.box), item.box.style)
           /\ box_slots' = SlotSet(box_slots, item.slot, finished.box)
    /\ Stepped("finish_item")
    /\ UNCHANGED <<pc, builder, result, container, content_sizes, callers, returns,
                   style_lookups>>

\* The first closure for a box that needs one: finish calls construct for the
\* children of the element, with a builder of its own.  The jobs of the
\* caller wait in callers until the call returns.
CallConstruct(k) ==
    /\ pc = "finish"
    /\ k \in 1..Len(pass.segments)
    /\ ~Complete(pass.segments[k])
    /\ LET item == block_level_boxes[pass.segments[k].next] IN
       /\ NeedsConstruct(item.box)
       /\ \E inline_size_is_auto \in BOOLEAN :
              content_sizes' =
                  inline_if(requests_inline(content_sizes) /\ inline_size_is_auto)
       /\ container' = item.box.style
       /\ callers' = Append(callers,
              [block_level_boxes |-> block_level_boxes,
               anonymous_style |-> anonymous_style,
               contains_floats |-> contains_floats,
               container |-> container,
               content_sizes |-> content_sizes,
               pass |-> pass,
               segment |-> k])
    /\ block_level_boxes' = <<>>
    /\ anonymous_style' = None
    /\ contains_floats' = "No"
    /\ pass' = [segments |-> <<>>, mapped |-> <<>>]
    /\ pc' = "walk"
    /\ Stepped("call")
    /\ UNCHANGED <<ongoing_inline_formatting_context, ongoing_inline_boxes_stack,
                   box_slots, result, returns, computed, style_lookups>>

\* The block container of a result.
ContainerOf(returned) ==
    IF returned.kind = "InlineFormattingContext"
    THEN [kind |-> "InlineFormattingContext",
          inline_level_boxes |-> returned.inline_level_boxes]
    ELSE [kind |-> "BlockLevelBoxes", boxes |-> returned.boxes]

\* The call returns to finish, which makes the box, and to the first closure.
Resume ==
    /\ pc = "done"
    /\ callers # <<>>
    /\ LET caller == Last(callers)
           k == caller.segment
           item == caller.block_level_boxes[caller.pass.segments[k].next]
           finished == finish(item.box, Returned(ContainerOf(result), result.contains_floats))
       IN  /\ \E contribution \in Contributions(caller.content_sizes, item.box) :
                  pass' = Folded(caller.pass, k, finished, content_sizes, contribution)
           /\ box_slots' = SlotSet(box_slots, item.slot, finished.box)
           /\ block_level_boxes' = caller.block_level_boxes
           /\ anonymous_style' = caller.anonymous_style
           /\ contains_floats' = caller.contains_floats
           /\ container' = caller.container
           /\ content_sizes' = caller.content_sizes
    /\ callers' = Front(callers)
    /\ ongoing_inline_formatting_context' = <<>>
    /\ result' = [kind |-> "None"]
    /\ pc' = "finish"
    /\ Stepped("resume")
    /\ UNCHANGED <<ongoing_inline_boxes_stack, returns, computed, style_lookups>>

\* The second closure, on two neighbouring parts whose jobs are done.
ReduceSegments(k) ==
    /\ pc = "finish"
    /\ k \in 1..(Len(pass.segments) - 1)
    /\ LET left == pass.segments[k]
           right == pass.segments[k + 1]
       IN  /\ Complete(left) /\ Complete(right)
           /\ pass' = [pass EXCEPT !.segments =
                          (SubSeq(@, 1, k - 1)
                              \o <<[lo |-> left.lo, hi |-> right.hi, next |-> right.next,
                                    target |-> Reduce(left.target, right.target, content_sizes),
                                    out |-> Collect(left.out, right.out),
                                    jobs |-> left.jobs + right.jobs]>>)
                              \o SubSeq(@, k + 2, Len(@))]
    /\ Stepped("reduce")
    /\ UNCHANGED <<pc, builder, box_slots, result, container, content_sizes, callers, returns,
                   computed, style_lookups>>

\* BlockContainer::construct after the finish pass.
ConstructEnd ==
    /\ pc = "finish"
    /\ Len(pass.segments) = 1
    /\ Complete(pass.segments[1])
    /\ LET target == pass.segments[1].target IN
       /\ result' = [kind |-> "BlockLevelBoxes",
                     boxes |-> pass.segments[1].out,
                     contains_floats |-> target.contains_floats,
                     content_sizes |->
                         compute(content_sizes, target.outer_content_sizes_of_children)]
       /\ returns' = returns \cup
              {[container |-> container, contains_floats |-> target.contains_floats]}
    /\ pc' = "done"
    /\ Stepped("construct_end")
    /\ UNCHANGED <<builder, box_slots, container, content_sizes, pass, callers, computed,
                   style_lookups>>

\* The block-level elements in normal flow of the walk with the finish pass:
\* <div>, a block-level element that is not flow inside, a replaced one.
FinishBlocks ==
    {<<"Flow", "NonReplaced">>, <<"FlowRoot", "NonReplaced">>, <<"Flow", "Replaced">>}

\* The walk with the finish pass: inline boxes, an inline-level element that
\* is not flow inside, block-level elements in normal flow, and floats and
\* absolutely positioned elements, whose display inside and contents the
\* builder only hands on.
NextFinish ==
    \/ InlineBoxBegin("Flow", "NonReplaced")
    \/ InlineBoxEnd
    \/ InlineAtomic("FlowRoot", "NonReplaced")
    \/ HandleAbsolutelyPositionedElement("Flow", "NonReplaced")
    \/ HandleFloatElement("Flow", "NonReplaced")
    \/ \E b \in FinishBlocks : HandleBlockLevelElement(b[1], b[2])
    \/ ConstructBegin
    \/ \E k \in 1..Len(pass.segments), mid \in 1..Len(block_level_boxes) : Split(k, mid)
    \/ \E k \in 1..Len(pass.segments) : FinishItem(k)
    \/ \E k \in 1..Len(pass.segments) : CallConstruct(k)
    \/ Resume
    \/ \E k \in 1..Len(pass.segments) : ReduceSegments(k)
    \/ ConstructEnd

\* No content sizes are requested of the first call.
InitFinish ==
    InitFrom([events |-> MaxFinishEvents, chars |-> 0,
              depth |-> MaxFinishDepth, alphabet |-> {}, document |-> TRUE,
              computed |-> TRUE, arcs |-> FALSE, requests |-> {"None"}])
SpecFinish == InitFinish /\ [][NextFinish]_vars

\* The walk with the finish pass where content sizes are requested:
\* floats, and in normal flow <div> and a replaced block-level element.
NextSizes ==
    \/ HandleFloatElement("Flow", "NonReplaced")
    \/ HandleBlockLevelElement("Flow", "NonReplaced")
    \/ HandleBlockLevelElement("Flow", "Replaced")
    \/ ConstructBegin
    \/ \E k \in 1..Len(pass.segments), mid \in 1..Len(block_level_boxes) : Split(k, mid)
    \/ \E k \in 1..Len(pass.segments) : FinishItem(k)
    \/ \E k \in 1..Len(pass.segments) : CallConstruct(k)
    \/ Resume
    \/ \E k \in 1..Len(pass.segments) : ReduceSegments(k)
    \/ ConstructEnd

InitSizes ==
    InitFrom([events |-> MaxSizesEvents, chars |-> 0,
              depth |-> 0, alphabet |-> {}, document |-> TRUE,
              computed |-> FALSE, arcs |-> FALSE, requests |-> {"Inline"}])
SpecSizes == InitSizes /\ [][NextSizes]_vars

\* The walk with the loop of handle_text step by step and the finish pass:
\* texts, inline boxes, <div>.  Every step that can be taken is taken in the
\* end: the traversal goes through a finite tree, and rayon runs every job.
NextLoop ==
    \/ \E input \in Strings(limits.alphabet, limits.chars - nchars) : HandleTextBegin(input)
    \/ HandleTextLoop
    \/ InlineBoxBegin("Flow", "NonReplaced")
    \/ InlineBoxEnd
    \/ HandleBlockLevelElement("Flow", "NonReplaced")
    \/ ConstructBegin
    \/ \E k \in 1..Len(pass.segments), mid \in 1..Len(block_level_boxes) : Split(k, mid)
    \/ \E k \in 1..Len(pass.segments) : FinishItem(k)
    \/ \E k \in 1..Len(pass.segments) : CallConstruct(k)
    \/ Resume
    \/ \E k \in 1..Len(pass.segments) : ReduceSegments(k)
    \/ ConstructEnd

InitLoop ==
    InitFrom([events |-> MaxLoopEvents, chars |-> MaxLoopChars,
              depth |-> MaxLoopDepth, alphabet |-> FewChars, document |-> TRUE,
              computed |-> FALSE, arcs |-> FALSE, requests |-> {"None"}])
SpecLoop == InitLoop /\ [][NextLoop]_vars /\ WF_vars(NextLoop)

----------------------------------------------------------------------------
\* What the properties speak of.

Anonymous(entry) == entry.slot = DummySlot

\* A block-level box was produced for an element delivered to the builder.
ProducedBlockLevel ==
    \E i \in 1..Len(block_level_boxes) : ~Anonymous(block_level_boxes[i])

\* The inline-level boxes of the anonymous blocks, in the order of the blocks.
RECURSIVE AnonymousInlines(_)
AnonymousInlines(entries) ==
    IF entries = <<>>
    THEN <<>>
    ELSE (IF Anonymous(entries[1])
          THEN entries[1].box.contents.inline_level_boxes
          ELSE <<>>) \o AnonymousInlines(Tail(entries))

\* An inline-level box was produced.
ProducedInlineLevel ==
    \/ pre.ongoing_inline_formatting_context # <<>>
    \/ AnonymousInlines(pre.block_level_boxes) # <<>>

RECURSIVE StackChildren(_)
StackChildren(stack) ==
    IF stack = <<>> THEN <<>> ELSE stack[1].children \o StackChildren(Tail(stack))

\* Every inline-level box the builder holds at the top of some sequence, in
\* the order in which the sequences were filled.
EmittedInlines ==
    (AnonymousInlines(block_level_boxes) \o ongoing_inline_formatting_context)
        \o StackChildren(ongoing_inline_boxes_stack)

\* The InlineBox values of one style among boxes and below them, in document order.
RECURSIVE FragmentsIn(_, _)
FragmentsIn(boxes, style) ==
    IF boxes = <<>>
    THEN <<>>
    ELSE LET b == boxes[1] IN
         (IF b.kind = "InlineBox"
          THEN (IF b.style = style THEN <<b>> ELSE <<>>) \o FragmentsIn(b.children, style)
          ELSE <<>>) \o FragmentsIn(Tail(boxes), style)

IsInlineBox(e) == kinds[e] = "inline_box"
IsOpen(e) ==
    \E k \in 1..Len(ongoing_inline_boxes_stack) : ongoing_inline_boxes_stack[k].style = e
Frame(e) ==
    ongoing_inline_boxes_stack[
        CHOOSE k \in 1..Len(ongoing_inline_boxes_stack) :
            ongoing_inline_boxes_stack[k].style = e]

RECURSIVE ConcatChildren(_)
ConcatChildren(fragments) ==
    IF fragments = <<>>
    THEN <<>>
    ELSE fragments[1].children \o ConcatChildren(Tail(fragments))

PreCurrent ==
    current_inline_level_boxes(pre.ongoing_inline_boxes_stack,
                               pre.ongoing_inline_formatting_context)
Current ==
    current_inline_level_boxes(ongoing_inline_boxes_stack,
                               ongoing_inline_formatting_context)

TextEvent == last.kind = "text"

\* The text the last text event added to the box tree.
AppendedText ==
    IF PreCurrent # <<>> /\ Last(PreCurrent).kind = "TextRun"
    THEN SubSeq(Last(Current).text, Len(Last(PreCurrent).text) + 1, Len(Last(Current).text))
    ELSE IF Len(Current) > Len(PreCurrent) THEN Last(Current).text ELSE <<>>

\* The last text event made a text run of its own.
NewTextRun ==
    /\ Len(Current) = Len(PreCurrent) + 1
    /\ Front(Current) = PreCurrent
    /\ Last(Current).kind = "TextRun"

WhitespaceOnly(s) == \A i \in 1..Len(s) : IsWs(s[i])

\* Single spaces between words only, nothing at either end.
IsCollapsed(s) ==
    /\ \A i \in 1..Len(s) : IsWs(s[i]) => s[i] = " "
    /\ s # <<>> => ~IsWs(s[1]) /\ ~IsWs(s[Len(s)])
    /\ \A i \in 1..(Len(s) - 1) : ~(IsWs(s[i]) /\ IsWs(s[i + 1]))

\* The reference collapse: from character i on, a character that is not
\* whitespace is copied, the first character of a whitespace run becomes one
\* space, the rest of the run nothing.
RECURSIVE ReferenceFrom(_, _)
ReferenceFrom(s, i) ==
    IF i > Len(s)
    THEN <<>>
    ELSE (IF ~IsWs(s[i])
          THEN <<s[i]>>
          ELSE IF i = 1 \/ ~IsWs(s[i - 1]) THEN <<" ">> ELSE <<>>) \o ReferenceFrom(s, i + 1)

\* The leading whitespace is removed first.
ReferenceCollapse(s) ==
    IF WhitespaceOnly(s)
    THEN <<>>
    ELSE ReferenceFrom(s, CHOOSE i \in 1..Len(s) : ~IsWs(s[i]) /\ WhitespaceOnly(SubSeq(s, 1, i - 1)))

\* No inline-level box precedes the text: nothing in the ongoing inline
\* formatting context, nothing in the open inline boxes.
AtStart ==
    /\ pre.ongoing_inline_formatting_context = <<>>
    /\ \A k \in 1..Len(pre.ongoing_inline_boxes_stack) :
           pre.ongoing_inline_boxes_stack[k].children = <<>>

----------------------------------------------------------------------------
\* The properties.

\* C1 as stated: BlockContainer::construct returns the InlineFormattingContext
\* variant if and only if no block-level content was produced as a direct
\* child of the container, and BlockLevelBoxes in every other case.
C1_InlineIffNoBlockLevel ==
    pc = "done" =>
        /\ result.kind \in {"InlineFormattingContext", "BlockLevelBoxes"}
        /\ result.kind = "InlineFormattingContext" <=> ~ProducedBlockLevel

\* C1 amended: construct returns InlineFormattingContext if and only if no
\* block-level content was produced and at least one inline-level box was;
\* in every other case it returns BlockLevelBoxes, which is empty when
\* nothing at all was produced.
C1_InlineIffOnlyInlineLevel ==
    pc = "done" =>
        /\ result.kind \in {"InlineFormattingContext", "BlockLevelBoxes"}
        /\ result.kind = "InlineFormattingContext"
               <=> (~ProducedBlockLevel /\ ProducedInlineLevel)
        /\ (~ProducedBlockLevel /\ ~ProducedInlineLevel) =>
               (result.kind = "BlockLevelBoxes" /\ result.boxes = <<>>)

\* construct has returned an inline formatting context of several boxes
C1_Witness ==
    /\ pc = "done"
    /\ result.kind = "InlineFormattingContext"
    /\ Len(result.inline_level_boxes) >= 2
    /\ ~ProducedBlockLevel

\* C2: an empty inline formatting context is never materialized: construct
\* never returns InlineFormattingContext with no boxes, no anonymous block
\* wraps an inline formatting context with no boxes, ending an empty ongoing
\* context pushes nothing, and a container with no content yields an empty
\* BlockLevelBoxes.
C2_NoEmptyInlineFormattingContext ==
    /\ result.kind = "InlineFormattingContext" => result.inline_level_boxes # <<>>
    /\ \A i \in 1..Len(block_level_boxes) :
           Anonymous(block_level_boxes[i]) =>
               block_level_boxes[i].box.contents.inline_level_boxes # <<>>
    /\ result.kind = "BlockLevelBoxes" =>
           \A i \in 1..Len(result.boxes) :
               (/\ result.boxes[i].kind = "SameFormattingContextBlock"
                /\ result.boxes[i].contents.kind = "InlineFormattingContext")
                   => result.boxes[i].contents.inline_level_boxes # <<>>
    /\ (/\ last.kind = "block"
        /\ pre.ongoing_inline_formatting_context = <<>>
        /\ pre.ongoing_inline_boxes_stack = <<>>) =>
           Front(block_level_boxes) = pre.block_level_boxes
    /\ (last.kind = "construct" /\ pre.ongoing_inline_formatting_context = <<>>) =>
           block_level_boxes = pre.block_level_boxes
    /\ (/\ last.kind = "construct"
        /\ pre.ongoing_inline_formatting_context = <<>>
        /\ pre.block_level_boxes = <<>>) =>
           (result.kind = "BlockLevelBoxes" /\ result.boxes = <<>>)

\* a block-level element arrives when the ongoing context is empty and an
\* anonymous block was made before
C2_Witness ==
    /\ last.kind = "block"
    /\ pre.ongoing_inline_formatting_context = <<>>
    /\ pre.ongoing_inline_boxes_stack = <<>>
    /\ \E i \in 1..Len(pre.block_level_boxes) : Anonymous(pre.block_level_boxes[i])

\* C3: an inline box during whose traversal N block-level elements were met
\* is emitted as exactly N + 1 InlineBox fragments of its style; only the
\* first emitted has first_fragment, only the last emitted has last_fragment
\* (for N = 0 the single fragment has both).
C3_FragmentCountAndFlags ==
    \A e \in 1..nevents :
        (IsInlineBox(e) /\ ~IsOpen(e)) =>
            LET f == FragmentsIn(EmittedInlines, e) IN
            /\ Len(f) = blocks_inside[e] + 1
            /\ \A i \in 1..Len(f) :
                   /\ f[i].first_fragment <=> i = 1
                   /\ f[i].last_fragment <=> i = Len(f)

\* an inline box was split around two block-level elements and is closed
C3_Witness ==
    \E e \in 1..nevents :
        /\ IsInlineBox(e) /\ ~IsOpen(e)
        /\ blocks_inside[e] = 2
        /\ Len(FragmentsIn(EmittedInlines, e)) = 3

\* C4: the children of the fragments of an inline box, concatenated in the
\* order of emission, are the inline-level boxes given to that inline box in
\* document order (a nested open inline box is there once per fragment of
\* the parent it spans): nothing is lost, duplicated or reordered.
C4_FragmentsKeepChildren ==
    \A e \in 1..nevents :
        IsInlineBox(e) =>
            LET emitted == FragmentsIn(EmittedInlines, e)
                all == IF IsOpen(e) THEN Append(emitted, Frame(e)) ELSE emitted
            IN  ConcatChildren(all) = children_log[e]

\* a closed inline box of two fragments, split by a block-level element
\* after its first child
C4_Witness ==
    \E e \in 1..nevents :
        /\ IsInlineBox(e) /\ ~IsOpen(e)
        /\ blocks_inside[e] = 1
        /\ LET f == FragmentsIn(EmittedInlines, e) IN
           /\ Len(f) = 2
           /\ f[1].children # <<>>
           /\ ConcatChildren(f) = children_log[e]

\* C5: text that starts with whitespace and is the first inline content (no
\* inline-level box precedes it) loses its leading whitespace: the text run
\* it makes does not start with a space; "  a" yields "a".
C5_LeadingWhitespaceDroppedAtStart ==
    (TextEvent /\ StartsWithWs(last.input) /\ AtStart) =>
        /\ ~last.preserved
        /\ IF WhitespaceOnly(last.input)
           THEN Current = <<>>
           ELSE /\ Current = <<TextRun(ParentStyle, AppendedText)>>
                /\ ~IsWs(AppendedText[1])
        /\ last.input = <<" ", " ", "a">> => AppendedText = <<"a">>

\* "  a" was delivered as the first inline content
C5_Witness ==
    /\ TextEvent
    /\ AtStart
    /\ last.input = <<" ", " ", "a">>
    /\ Current = <<TextRun(ContainerStyle, <<"a">>)>>

\* C6: text that starts with whitespace and follows an inline atomic box
\* keeps its leading whitespace as exactly one space, in a text run of its
\* own: "a", an atomic box, "  b" yield the text runs "a" and " b".
C6_LeadingWhitespaceKeptAfterAtomic ==
    (/\ TextEvent
     /\ StartsWithWs(last.input)
     /\ PreCurrent # <<>>
     /\ Last(PreCurrent).kind = "Atomic") =>
        /\ NewTextRun
        /\ AppendedText = <<" ">> \o ReferenceCollapse(last.input)

\* The nearest inline-level content before the innermost open inline box: the
\* last box of the nearest enclosing sequence that is not empty.
OuterSequences ==
    <<pre.ongoing_inline_formatting_context>> \o
        [k \in 1..(Len(pre.ongoing_inline_boxes_stack) - 1) |->
            pre.ongoing_inline_boxes_stack[k].children]

PrecededOutsideByText ==
    /\ pre.ongoing_inline_boxes_stack # <<>>
    /\ PreCurrent = <<>>
    /\ \E j \in 1..Len(OuterSequences) :
           /\ OuterSequences[j] # <<>>
           /\ \A k \in (j + 1)..Len(OuterSequences) : OuterSequences[k] = <<>>
           /\ Last(OuterSequences[j]).kind = "TextRun"
           /\ ~EndsWithSpace(Last(OuterSequences[j]).text)

\* C7: the search for the preceding inline-level content goes on through the
\* open inline boxes: text that starts with whitespace and is the first
\* content of a newly opened inline box, after a text run not ending in a
\* space, keeps one leading space ("a", then an inline box holding " b",
\* yield "a" and " b").
C7_SearchWalksOpenInlineBoxes ==
    (TextEvent /\ StartsWithWs(last.input) /\ PrecededOutsideByText) =>
        /\ last.preserved
        /\ NewTextRun
        /\ AppendedText = <<" ">> \o ReferenceCollapse(last.input)

\* C8: collapsing is a no-op on collapsed text: a string with single spaces
\* between words only and no whitespace at either end is stored as it is,
\* and collapsing what a text event stored gives the same text again.
C8_CollapsedTextUnchanged ==
    TextEvent =>
        /\ IsCollapsed(last.input) => AppendedText = last.input
        /\ CollapseLoop(<<>>, AppendedText) = AppendedText

\* "a b" was delivered and is a text run
C8_Witness ==
    /\ TextEvent
    /\ last.input = <<"a", " ", "b">>
    /\ NewTextRun
    /\ Last(Current).text = <<"a", " ", "b">>

\* C9: the text a text event appends is the reference collapse: one space if
\* and only if the leading whitespace is preserved, then the input without
\* its leading whitespace, every further run of whitespace (a trailing one
\* too) replaced by one space, every other character copied in order.
C9_AppendedIsReferenceCollapse ==
    TextEvent =>
        /\ AppendedText =
               (IF last.preserved THEN <<" ">> ELSE <<>>) \o ReferenceCollapse(last.input)
        /\ (PreCurrent # <<>> /\ Last(PreCurrent).kind = "TextRun") =>
               /\ Len(Current) = Len(PreCurrent)
               /\ Front(Current) = Front(PreCurrent)
               /\ Last(Current).text = Last(PreCurrent).text \o AppendedText
        /\ ~(PreCurrent # <<>> /\ Last(PreCurrent).kind = "TextRun") =>
               (AppendedText = <<>> /\ Current = PreCurrent) \/ NewTextRun

\* a text with preserved leading whitespace, not a space, was appended to a
\* text run
C9_Witness ==
    /\ TextEvent
    /\ last.preserved
    /\ last.input = <<"\n", "b">>
    /\ AppendedText = <<" ", "b">>
    /\ Len(Current) = Len(PreCurrent)

\* C10: a text event whose collapsed result is empty (leading whitespace not
\* preserved, nothing after it) leaves the builder as it was and sets no
\* slot; whitespace-only text right after a block-level element is such an
\* event, and makes no text run and no anonymous block.
C10_EmptyTextChangesNothing ==
    /\ (TextEvent /\ ~last.preserved /\ WhitespaceOnly(last.input)) =>
           (Snapshot = pre /\ box_slots[nevents] = <<>>)
    /\ (/\ TextEvent
        /\ WhitespaceOnly(last.input)
        /\ nevents >= 2
        /\ kinds[nevents - 1] = "block") =>
           (~last.preserved /\ Snapshot = pre)

\* whitespace-only text was delivered right after a block-level element
C10_Witness ==
    /\ TextEvent
    /\ last.input = <<" ", "\n">>
    /\ nevents >= 2
    /\ kinds[nevents - 1] = "block"
    /\ Snapshot = pre

\* No two text runs next to each other among boxes, nor among the children of
\* any inline box below them.
RECURSIVE NoAdjacentTextRuns(_)
NoAdjacentTextRuns(boxes) ==
    /\ \A i \in 1..(Len(boxes) - 1) :
           ~(boxes[i].kind = "TextRun" /\ boxes[i + 1].kind = "TextRun")
    /\ \A i \in 1..Len(boxes) :
           boxes[i].kind = "InlineBox" => NoAdjacentTextRuns(boxes[i].children)

\* The last box of the open inline sequence was a text run before the event.
LastWasTextRun == PreCurrent # <<>> /\ Last(PreCurrent).kind = "TextRun"

\* What the last text event has to add: a space for preserved leading
\* whitespace, then the collapsed text.
CollapsedText ==
    (IF last.preserved THEN <<" ">> ELSE <<>>) \o ReferenceCollapse(last.input)

\* The inline sequences of the builder: those of the anonymous blocks, the
\* ongoing inline formatting context, the children of the open inline boxes.
\* The children of every emitted fragment lie below them.
InlineSequences ==
    {block_level_boxes[i].box.contents.inline_level_boxes :
        i \in {j \in 1..Len(block_level_boxes) : Anonymous(block_level_boxes[j])}}
    \cup {ongoing_inline_formatting_context}
    \cup {ongoing_inline_boxes_stack[k].children : k \in 1..Len(ongoing_inline_boxes_stack)}

\* C11 as stated: if the last box of the open inline sequence is a text run,
\* a text event appends its collapsed text to that run and makes no box;
\* otherwise exactly one new TextRun with the parent style of the event is
\* appended.  No inline sequence holds two adjacent text runs.
C11_TextRunAppendedOrCreated ==
    /\ TextEvent =>
           IF LastWasTextRun
           THEN /\ Len(Current) = Len(PreCurrent)
                /\ Front(Current) = Front(PreCurrent)
                /\ Last(Current) =
                       TextRun(Last(PreCurrent).parent_style,
                               Last(PreCurrent).text \o CollapsedText)
           ELSE /\ NewTextRun
                /\ Last(Current) = TextRun(ParentStyle, CollapsedText)
    /\ \A seq \in InlineSequences : NoAdjacentTextRuns(seq)

\* C11 amended: the new TextRun is appended only if the collapsed text is
\* not empty; a text event whose collapsed text is empty appends no box.
C11_TextRunAppendedOrCreatedIfKept ==
    /\ TextEvent =>
           IF LastWasTextRun
           THEN /\ Len(Current) = Len(PreCurrent)
                /\ Front(Current) = Front(PreCurrent)
                /\ Last(Current) =
                       TextRun(Last(PreCurrent).parent_style,
                               Last(PreCurrent).text \o CollapsedText)
           ELSE IF CollapsedText # <<>>
                THEN /\ NewTextRun
                     /\ Last(Current) = TextRun(ParentStyle, CollapsedText)
                ELSE Current = PreCurrent
    /\ \A seq \in InlineSequences : NoAdjacentTextRuns(seq)
    /\ result.kind = "InlineFormattingContext" =>
           NoAdjacentTextRuns(result.inline_level_boxes)

\* text was appended to the text run that an open inline box ends with
C11_Witness ==
    /\ TextEvent
    /\ LastWasTextRun
    /\ CollapsedText # <<>>
    /\ Len(Current) = Len(PreCurrent)
    /\ ongoing_inline_boxes_stack # <<>>

OutOfFlowEvent == last.kind \in {"abspos", "float"}

OutOfFlowKind ==
    IF last.kind = "abspos"
    THEN "OutOfFlowAbsolutelyPositionedBox"
    ELSE "OutOfFlowFloatBox"

NothingOngoingBefore ==
    pre.ongoing_inline_boxes_stack = <<>> /\ pre.ongoing_inline_formatting_context = <<>>

\* C14: an absolutely positioned or floated element is pushed to the deferred
\* block-level sequence, with its own slot, exactly when the stack of open
\* inline boxes and the ongoing inline formatting context are both empty as
\* it is delivered; in every other state it is appended at once to the open
\* inline sequence as an out-of-flow inline-level box, set in its slot, and
\* the deferred sequence is left as it was.
C14_OutOfFlowDeferredIffNothingOngoing ==
    OutOfFlowEvent =>
        IF NothingOngoingBefore
        THEN /\ block_level_boxes =
                    Append(pre.block_level_boxes,
                           Entry(Intermediate(OutOfFlowKind, nevents), nevents))
             /\ ongoing_inline_formatting_context = <<>>
             /\ ongoing_inline_boxes_stack = <<>>
             /\ box_slots[nevents] = <<>>
        ELSE /\ block_level_boxes = pre.block_level_boxes
             /\ Current = Append(PreCurrent, OutOfFlowInline(OutOfFlowKind, nevents))
             /\ Len(ongoing_inline_boxes_stack) = Len(pre.ongoing_inline_boxes_stack)
             /\ box_slots[nevents] = <<OutOfFlowInline(OutOfFlowKind, nevents)>>

\* a float was delivered into an open inline box that had no children yet,
\* the ongoing inline formatting context being empty
C14_Witness ==
    /\ last.kind = "float"
    /\ pre.ongoing_inline_formatting_context = <<>>
    /\ pre.ongoing_inline_boxes_stack # <<>>
    /\ PreCurrent = <<>>
    /\ Current = <<OutOfFlowInline("OutOfFlowFloatBox", nevents)>>
    /\ block_level_boxes = pre.block_level_boxes

BlockEvent == last.kind = "block"

\* The ongoing inline formatting context was ended before the element of the
\* last event was pushed.
EndedBeforePush ==
    /\ ongoing_inline_formatting_context = <<>>
    /\ block_level_boxes # <<>>
    /\ Last(block_level_boxes).slot = nevents
    /\ IF NothingOngoingBefore
       THEN Front(block_level_boxes) = pre.block_level_boxes
       ELSE /\ Front(Front(block_level_boxes)) = pre.block_level_boxes
            /\ LET anonymous == Last(Front(block_level_boxes)) IN
               /\ Anonymous(anonymous)
               /\ anonymous.box.kind = "SameFormattingContextBlock"
               /\ anonymous.box.contents.kind = "InlineFormattingContext"
               /\ SubSeq(anonymous.box.contents.inline_level_boxes, 1,
                         Len(pre.ongoing_inline_formatting_context))
                      = pre.ongoing_inline_formatting_context

SameFormattingContextDeferred(box) ==
    box.kind = "SameFormattingContextBlock" /\ box.contents.kind = "Deferred"

\* C15 as stated: a block-level element in normal flow is deferred as
\* SameFormattingContextBlock whenever its display inside is flow and as
\* Independent for any other display inside; the ongoing inline formatting
\* context is ended first and the element is pushed with its own slot.
C15_DeferredByDisplayInside ==
    BlockEvent =>
        /\ EndedBeforePush
        /\ IF last.display_inside = "Flow"
           THEN SameFormattingContextDeferred(Last(block_level_boxes).box)
           ELSE Last(block_level_boxes).box.kind = "Independent"

\* C15 amended: SameFormattingContextBlock exactly when the display inside
\* is flow and the contents are not replaced, Independent otherwise.
C15_DeferredByDisplayInsideAndContents ==
    BlockEvent =>
        /\ EndedBeforePush
        /\ Last(block_level_boxes).box.style = nevents
        /\ IF last.display_inside = "Flow" /\ last.contents = "NonReplaced"
           THEN SameFormattingContextDeferred(Last(block_level_boxes).box)
           ELSE Last(block_level_boxes).box.kind = "Independent"

\* a replaced block-level element with display inside flow was delivered
\* after inline content, and is deferred as Independent
C15_Witness ==
    /\ BlockEvent
    /\ last.display_inside = "Flow"
    /\ last.contents = "Replaced"
    /\ pre.ongoing_inline_formatting_context # <<>>
    /\ Last(block_level_boxes).box.kind = "Independent"
    /\ Anonymous(Last(Front(block_level_boxes)))

IsPrefix(a, b) == Len(a) <= Len(b) /\ SubSeq(b, 1, Len(a)) = a

\* The events whose boxes lie among boxes or below them.  An inline box is
\* counted where its first fragment lies: its later fragments continue it
\* after the block-level elements that split it.
RECURSIVE DeliveredIn(_)
DeliveredIn(boxes) ==
    UNION {LET b == boxes[i] IN
           CASE b.kind = "TextRun" -> {}
             [] b.kind = "InlineBox" ->
                  (IF b.first_fragment THEN {b.style} ELSE {}) \cup DeliveredIn(b.children)
             [] OTHER -> {b.style}
           : i \in 1..Len(boxes)}

InlineLevelEvent == last.kind \in {"text", "inline_box", "inline_box_end", "atomic"}

\* C18: the deferred block-level sequence is in document order.  Every event
\* only appends to it; inline-level events leave it alone, their boxes go to
\* the ongoing inline formatting context; the boxes of the elements are in
\* the order of delivery; what lies in an anonymous block before the box of
\* a block-level element was delivered before that element, what lies in an
\* anonymous block after it was delivered after it.  Inline content, a
\* block and inline content yield anonymous block, block, anonymous block.
C18_DeferredSequenceInDocumentOrder ==
    /\ IsPrefix(pre.block_level_boxes, block_level_boxes)
    /\ InlineLevelEvent => block_level_boxes = pre.block_level_boxes
    /\ (last.kind = "construct" /\ result.kind = "BlockLevelBoxes"
            /\ pre.ongoing_inline_formatting_context # <<>>) =>
           /\ Front(block_level_boxes) = pre.block_level_boxes
           /\ Anonymous(Last(block_level_boxes))
           /\ Last(block_level_boxes).box.contents.inline_level_boxes
                  = pre.ongoing_inline_formatting_context
    /\ \A i, j \in 1..Len(block_level_boxes) :
           LET a == block_level_boxes[i]
               b == block_level_boxes[j]
           IN  /\ (i < j /\ ~Anonymous(a) /\ ~Anonymous(b)) => a.slot < b.slot
               /\ (i < j /\ Anonymous(a) /\ ~Anonymous(b)) =>
                      \A e \in DeliveredIn(a.box.contents.inline_level_boxes) : e < b.slot
               /\ (i < j /\ ~Anonymous(a) /\ Anonymous(b)) =>
                      \A e \in DeliveredIn(b.box.contents.inline_level_boxes) : e > a.slot
    /\ (/\ pc = "done"
        /\ Len(kinds) = 3
        /\ kinds[1] \in {"text", "atomic"}
        /\ kinds[2] = "block"
        /\ kinds[3] \in {"text", "atomic"}
        /\ Len(pre.block_level_boxes) = 2
        /\ pre.ongoing_inline_formatting_context # <<>>) =>
           /\ Len(result.boxes) = 3
           /\ Anonymous(block_level_boxes[1])
           /\ block_level_boxes[2].slot = 2
           /\ Anonymous(block_level_boxes[3])
           /\ result.boxes[2] = box_slots[2][1]

\* inline content, a block-level element and inline content were delivered,
\* and construct returned anonymous block, block, anonymous block
C18_Witness ==
    /\ pc = "done"
    /\ kinds = <<"atomic", "block", "text">>
    /\ Len(result.boxes) = 3
    /\ Anonymous(block_level_boxes[1])
    /\ ~Anonymous(block_level_boxes[2])
    /\ Anonymous(block_level_boxes[3])
    /\ block_level_boxes[1].box.contents.inline_level_boxes = <<Atomic(1)>>
    /\ block_level_boxes[3].box.contents.inline_level_boxes[1].kind = "TextRun"

TextNode(parent, text) ==
    [container |-> ContainerStyle, parent |-> parent, text |-> text,
     display_inside |-> "", contents |-> ""]
ElementNode(parent, display_inside, contents) ==
    [container |-> ContainerStyle, parent |-> parent, text |-> <<>>,
     display_inside |-> display_inside, contents |-> contents]

\* text "  Hello ", <b>world</b>, text "!"
HelloWorld ==
    /\ kinds = <<"text", "inline_box", "text", "text">>
    /\ document = <<TextNode(ContainerStyle, <<" ", " ", "H", "e", "l", "l", "o", " ">>),
                    ElementNode(ContainerStyle, "Flow", "NonReplaced"),
                    TextNode(2, <<"w", "o", "r", "l", "d">>),
                    TextNode(ContainerStyle, <<"!">>)>>

InlineOnly == \A e \in 1..nevents : kinds[e] \in {"text", "inline_box", "atomic"}

\* C16: text "  Hello ", an inline flow element <b> holding text "world" and
\* text "!" make one InlineFormattingContext of three inline-level boxes:
\* the text run "Hello ", an InlineBox, first and last fragment, whose only
\* child is the text run "world", and the text run "!".  Inline-only content
\* never makes a block-level box.
C16_HelloWorldIsOneInlineFormattingContext ==
    /\ (pc = "done" /\ HelloWorld) =>
           /\ result.kind = "InlineFormattingContext"
           /\ result.inline_level_boxes =
                  <<TextRun(ContainerStyle, <<"H", "e", "l", "l", "o", " ">>),
                    InlineBox(2, TRUE, TRUE, <<TextRun(2, <<"w", "o", "r", "l", "d">>)>>),
                    TextRun(ContainerStyle, <<"!">>)>>
    /\ InlineOnly =>
           /\ block_level_boxes = <<>>
           /\ pc = "done" =>
                  \/ result.kind = "InlineFormattingContext"
                  \/ result.kind = "BlockLevelBoxes" /\ result.boxes = <<>>

\* construct has returned for the three children of the example
C16_Witness ==
    /\ pc = "done"
    /\ HelloWorld
    /\ Len(result.inline_level_boxes) = 3

\* <span>a</span>, <div>, text "c"
SpanDivText ==
    /\ kinds = <<"inline_box", "text", "block", "text">>
    /\ document = <<ElementNode(ContainerStyle, "Flow", "NonReplaced"),
                    TextNode(1, <<"a">>),
                    ElementNode(ContainerStyle, "Flow", "NonReplaced"),
                    TextNode(ContainerStyle, <<"c">>)>>

AnonymousBlockOf(boxes) ==
    [kind |-> "SameFormattingContextBlock", style |-> style_for_anonymous(ContainerStyle),
     contents |-> [kind |-> "InlineFormattingContext", inline_level_boxes |-> boxes]]

SpanA == InlineBox(1, TRUE, TRUE, <<TextRun(1, <<"a">>)>>)

\* The <div>'s own box.
IsBlockOfDiv(box) ==
    /\ box.kind = "SameFormattingContextBlock"
    /\ box.style = 3
    /\ box.contents.kind = "Constructed"

\* C17 as stated: <span>a</span>, <div>B</div> and text "c" make
\* BlockLevelBoxes of length 2: an anonymous SameFormattingContextBlock
\* around the inline formatting context holding "a", then the
\* SameFormattingContextBlock of the <div>.
C17_SpanDivTextMakesTwoBoxes ==
    (pc = "done" /\ SpanDivText) =>
        /\ result.kind = "BlockLevelBoxes"
        /\ Len(result.boxes) = 2
        /\ result.boxes[1] = AnonymousBlockOf(<<SpanA>>)
        /\ IsBlockOfDiv(result.boxes[2])

\* C17 amended: they make BlockLevelBoxes of length 3, the third an
\* anonymous SameFormattingContextBlock around the inline formatting context
\* holding "c".
C17_SpanDivTextMakesThreeBoxes ==
    (pc = "done" /\ SpanDivText) =>
        /\ result.kind = "BlockLevelBoxes"
        /\ Len(result.boxes) = 3
        /\ result.boxes[1] = AnonymousBlockOf(<<SpanA>>)
        /\ IsBlockOfDiv(result.boxes[2])
        /\ result.boxes[3] = AnonymousBlockOf(<<TextRun(ContainerStyle, <<"c">>)>>)

\* construct has returned for the three children of the example
C17_Witness ==
    /\ pc = "done"
    /\ SpanDivText
    /\ result.kind = "BlockLevelBoxes"
    /\ result.boxes[3].contents.inline_level_boxes = <<TextRun(ContainerStyle, <<"c">>)>>

----------------------------------------------------------------------------
\* What the calls of construct returned.

FloatEvents == {f \in 1..nevents : kinds[f] = "float"}

\* The element was deferred as a block of the formatting context of its container.
SameFormattingContextElement(e) ==
    /\ kinds[e] = "block"
    /\ document[e].display_inside = "Flow"
    /\ document[e].contents = "NonReplaced"

\* inner is outer, or a same-formatting-context block whose chain of
\* containers reaches outer through such blocks only.
RECURSIVE InSameFormattingContext(_, _)
InSameFormattingContext(outer, inner) ==
    \/ inner = outer
    \/ /\ inner # ContainerStyle
       /\ SameFormattingContextElement(inner)
       /\ InSameFormattingContext(outer, document[inner].container)

\* The floats delivered to the container or below it without leaving its
\* formatting context.
FloatsOf(c) ==
    {f \in FloatEvents : InSameFormattingContext(c, document[f].container)}

\* The float went to the inline-level boxes, not to block_level_boxes.
InlineLevelFloat(f) == box_slots[f] # <<>> /\ box_slots[f][1].kind = "OutOfFlowFloatBox"

\* C12: a float delivered to a container, at any depth through inline boxes
\* and same-formatting-context blocks, makes every call of construct for that
\* container and for the same-formatting-context containers around it return
\* ContainsFloats::Yes, on both return paths, be the float deferred or inline-level.
C12_FloatMakesContainsFloatsYes ==
    \A r \in returns :
        FloatsOf(r.container) # {} => r.contains_floats = "Yes"

\* C12 witness: the first call has returned Yes for a float delivered to a
\* block inside it, and a call has returned an inline formatting context
\* holding a float.
C12_Witness ==
    /\ pc = "done" /\ callers = <<>>
    /\ result.kind = "BlockLevelBoxes"
    /\ result.contains_floats = "Yes"
    /\ \E f \in FloatsOf(ContainerStyle) :
          /\ document[f].container # ContainerStyle
          /\ document[f].parent # document[f].container

\* The passes begun and not yet returned from, each with its deferred sequence.
Passes ==
    {[block_level_boxes |-> callers[j].block_level_boxes, pass |-> callers[j].pass] :
        j \in 1..Len(callers)}
    \cup (IF pc \in {"finish", "done"} /\ result.kind # "InlineFormattingContext"
          THEN {[block_level_boxes |-> block_level_boxes, pass |-> pass]}
          ELSE {})

\* The boxes whose finish has returned.
Mapped(p) == {i \in 1..Len(p.pass.mapped) : p.pass.mapped[i] # None}

\* finish has reported No for every Independent box and every absolutely
\* positioned box.
BoundariesReportNo ==
    \A p \in Passes : \A i \in Mapped(p) :
        p.block_level_boxes[i].box.kind
                \in {"Independent", "OutOfFlowAbsolutelyPositionedBox"}
            => p.pass.mapped[i][1].contains_floats = "No"

\* The element established an independent formatting context.
IndependentElement(e) ==
    kinds[e] = "block" /\ ~SameFormattingContextElement(e)

\* C13: finish reports ContainsFloats::No for an Independent box and for an
\* absolutely positioned box whatever was delivered to them, and a call of
\* construct returns Yes only if a float was delivered to its container or
\* below it without crossing such a box.
C13_ContainsFloatsStopsAtIndependent ==
    /\ BoundariesReportNo
    /\ \A r \in returns :
          r.contains_floats = "Yes" => FloatsOf(r.container) # {}

\* C13 witness: the first call has returned No although a float was
\* delivered to the children of an Independent box of its container, whose
\* own call returned Yes.
C13_Witness ==
    /\ pc = "done" /\ callers = <<>>
    /\ result.kind = "BlockLevelBoxes"
    /\ result.contains_floats = "No"
    /\ \E f \in FloatEvents :
          LET e == document[f].container IN
          /\ e # ContainerStyle
          /\ IndependentElement(e)
          /\ document[e].container = ContainerStyle
          /\ [container |-> e, contains_floats |-> "Yes"] \in returns

\* The resolution of a deferred box: a box of the same variant and style, an
\* anonymous block keeping its inline formatting context.
ResolutionOf(intermediate, box) ==
    /\ box.kind = intermediate.kind
    /\ box.style = intermediate.style
    /\ (intermediate.kind = "SameFormattingContextBlock"
            /\ intermediate.contents.kind # "Deferred")
        => box.contents = intermediate.contents

\* The call of construct has returned from its finish pass.
PassReturned == pc = "done" /\ result.kind = "BlockLevelBoxes"

\* C19: however the finish pass was split into jobs and however the jobs
\* were interleaved, the BlockLevelBoxes returned are as many as the deferred
\* boxes, and the i-th is what finish made of the i-th deferred box.
C19_BoxesInDeferredOrder ==
    PassReturned =>
        /\ Len(result.boxes) = Len(block_level_boxes)
        /\ \A i \in 1..Len(block_level_boxes) :
              /\ result.boxes[i] = pass.mapped[i][1].box
              /\ ResolutionOf(block_level_boxes[i].box, result.boxes[i])

\* C19 witness: a pass of several jobs has returned boxes of two variants.
C19_Witness ==
    /\ PassReturned
    /\ pass.segments[1].jobs > 1
    /\ Len(result.boxes) > 1
    /\ result.boxes[1].kind # result.boxes[Len(result.boxes)].kind

\* The Target of one fold over the first n boxes, from left to right,
\* starting from the builder's flag and zero.
RECURSIVE SequentialFold(_)
SequentialFold(n) ==
    IF n = 0
    THEN Target(contains_floats, Zero)
    ELSE MapFold(SequentialFold(n - 1),
                 pass.mapped[n][1].contains_floats,
                 pass.mapped[n][1].contribution)

\* The largest of the values, 0 if there is none.
Largest(values) ==
    IF values = {} THEN 0 ELSE CHOOSE v \in values : \A w \in values : w <= v

\* What finish max-assigned for the boxes.
ContributionsMade ==
    {pass.mapped[i][1].contribution[1] :
        i \in {j \in 1..Len(pass.mapped) : pass.mapped[j][1].contribution # None}}

\* C20: whatever the split into jobs and the order of the reductions, the
\* ContainsFloats returned is the OR of the builder's flag with the flags of
\* all boxes, the content sizes returned are the max of the contributions of
\* all boxes, and both are those of one fold from left to right.
C20_ReducedValuesIndependentOfSchedule ==
    PassReturned =>
        /\ result.contains_floats = "Yes"
              <=> \/ contains_floats = "Yes"
                  \/ \E i \in 1..Len(pass.mapped) : pass.mapped[i][1].contains_floats = "Yes"
        /\ result.content_sizes =
              compute(content_sizes,
                      [min_content |-> Largest({c.min_content : c \in ContributionsMade}),
                       max_content |-> Largest({c.max_content : c \in ContributionsMade})])
        /\ LET target == SequentialFold(Len(block_level_boxes)) IN
           /\ result.contains_floats = target.contains_floats
           /\ result.content_sizes =
                  compute(content_sizes, target.outer_content_sizes_of_children)

\* C20 witness: a pass of several jobs has returned Yes for the float of a
\* box that is not the first, the builder's flag being No, and content sizes
\* that no single box contributed.
C20_Witness ==
    /\ PassReturned
    /\ pass.segments[1].jobs > 1
    /\ contains_floats = "No"
    /\ pass.mapped[1][1].contains_floats = "No"
    /\ result.contains_floats = "Yes"
    /\ result.content_sizes.kind = "Inline"
    /\ result.content_sizes.sizes \notin ContributionsMade
    /\ ContributionsMade # {}

----------------------------------------------------------------------------
\* The output slots.

\* The deferred sequences of the calls of construct that have not returned
\* to their caller, the one of this call last.
DeferredSequences ==
    [j \in 1..Len(callers) |-> callers[j].block_level_boxes]
        \o <<block_level_boxes>>

\* The slots of the elements in a deferred sequence.
SlotsOf(boxes) == {boxes[i].slot : i \in 1..Len(boxes)} \ {DummySlot}

\* Two boxes of a deferred sequence never have the same slot of an element.
DeferredSlotsDistinct ==
    \A j \in 1..Len(DeferredSequences) :
        LET boxes == DeferredSequences[j] IN
        \A i, k \in 1..Len(boxes) :
            (i # k /\ boxes[i].slot # DummySlot) => boxes[i].slot # boxes[k].slot

\* C21: the slot of an element is set at most once, by the walk or by one
\* job of the finish pass, however the jobs are interleaved: no slot is set
\* by both, and no two boxes of a pass have the same slot.
C21_SlotWrittenAtMostOnce ==
    /\ \A e \in 1..nevents : Len(box_slots[e]) <= 1
    /\ DeferredSlotsDistinct

\* C21 witness: the first call has returned from a pass of several jobs that
\* set the slots of two elements, the walk having set the slot of another.
C21_Witness ==
    /\ PassReturned /\ callers = <<>>
    /\ pass.segments[1].jobs > 1
    /\ \E e \in 1..nevents : kinds[e] = "inline_box" /\ Len(box_slots[e]) = 1
    /\ \E e, f \in 1..nevents :
          /\ e # f
          /\ e \in SlotsOf(block_level_boxes) /\ f \in SlotsOf(block_level_boxes)
          /\ Len(box_slots[e]) = 1 /\ Len(box_slots[f]) = 1

----------------------------------------------------------------------------
\* The content sizes.

\* The pass of this call has returned and was asked for content sizes.
SizesReturned == PassReturned /\ requests_inline(content_sizes)

\* The boxes of the pass in normal flow.
InFlow == {i \in 1..Len(block_level_boxes) :
              block_level_boxes[i].box.kind
                  \in {"SameFormattingContextBlock", "Independent"}}

\* Those whose own inline size is auto: finish handed the request on to
\* their contents.
AutoInFlow == {i \in InFlow : pass.mapped[i][1].request = "Inline"}

\* The componentwise max of the outer inline sizes finish max-assigned for
\* the boxes.
MaxOuterInline(boxes) ==
    LET made == {pass.mapped[i][1].contribution[1] :
                    i \in {j \in boxes : pass.mapped[j][1].contribution # None}}
    IN  [min_content |-> Largest({c.min_content : c \in made}),
         max_content |-> Largest({c.max_content : c \in made})]

\* C23 as claimed: the content sizes returned are the max of the outer
\* inline sizes of the boxes whose own inline size is auto, a box of fixed
\* inline size contributing nothing.
C23_SizesAreMaxOfAutoBoxes ==
    SizesReturned =>
        result.content_sizes = compute(content_sizes, MaxOuterInline(AutoInFlow))

\* C23 amended: the content sizes returned are the max of the outer inline
\* sizes of all boxes in normal flow, of auto inline size or not; floats and
\* absolutely positioned boxes contribute nothing, and only the contents of
\* a box in normal flow are ever asked for their content sizes.
C23_SizesAreMaxOfInFlowBoxes ==
    SizesReturned =>
        /\ result.content_sizes = compute(content_sizes, MaxOuterInline(InFlow))
        /\ \A i \in 1..Len(block_level_boxes) :
              /\ pass.mapped[i][1].contribution # None <=> i \in InFlow
              /\ pass.mapped[i][1].request = "Inline" => i \in InFlow

\* C23 witness: content sizes are returned that only a box of fixed inline
\* size contributed, next to a box of auto inline size and a float.
C23_Witness ==
    /\ SizesReturned
    /\ AutoInFlow # {} /\ InFlow \ AutoInFlow # {}
    /\ \E i \in 1..Len(block_level_boxes) :
          block_level_boxes[i].box.kind = "OutOfFlowFloatBox"
    /\ result.content_sizes.sizes = MaxOuterInline(InFlow \ AutoInFlow)
    /\ result.content_sizes.sizes # MaxOuterInline(AutoInFlow)

\* Every call of construct so far was made without a request for content sizes.
NoneRequested ==
    /\ content_sizes = "None"
    /\ \A j \in 1..Len(callers) : callers[j].content_sizes = "None"

\* What the call has returned holds the placeholder for content sizes.
ReturnedPlaceholder ==
    pc = "done" => result.content_sizes = [kind |-> "NoneRequested"]

\* C22 as claimed: when construct is called without a request for content
\* sizes, no inline content sizes are asked for anywhere under it, and it
\* returns the placeholder.
C22_NothingComputedWhenNotRequested ==
    NoneRequested => (computed = {} /\ ReturnedPlaceholder)

\* C22 amended: when construct is called without a request for content
\* sizes, it returns the placeholder, no finished box is asked for its
\* content sizes or contributes any, and the only content sizes asked for
\* are those of the atomic inline-level boxes whose own inline size is auto.
C22_OnlyAtomicsComputedWhenNotRequested ==
    NoneRequested =>
        /\ ReturnedPlaceholder
        /\ \A c \in computed : c.kind = "Atomic" /\ kinds[c.style] = "atomic"
        /\ \A p \in Passes : \A i \in Mapped(p) :
              /\ p.pass.mapped[i][1].request = "None"
              /\ p.pass.mapped[i][1].contribution = None

\* C22 witness: the first call, made without a request, has returned the
\* placeholder from a pass that finished an anonymous block and the block
\* of another call, and an atomic box was asked for its content sizes.
C22_Witness ==
    /\ PassReturned /\ callers = <<>> /\ NoneRequested
    /\ result.content_sizes = [kind |-> "NoneRequested"]
    /\ computed # {}
    /\ \E i \in 1..Len(block_level_boxes) : block_level_boxes[i].slot = DummySlot
    /\ \E i \in 1..Len(block_level_boxes) : NeedsConstruct(block_level_boxes[i].box)

----------------------------------------------------------------------------
\* The anonymous style.

\* The anonymous blocks of a deferred sequence.
AnonymousBlocks(boxes) == {i \in 1..Len(boxes) : boxes[i].slot = DummySlot}

\* How many times the style system was asked for the anonymous style of the container.
LookupsFor(c) == Cardinality({n \in 1..Len(style_lookups) : style_lookups[n] = c})

\* The builders of the calls of construct that have not returned to their
\* caller, the one of this call last.
Builders ==
    [j \in 1..Len(callers) |->
        [block_level_boxes |-> callers[j].block_level_boxes,
         anonymous_style |-> callers[j].anonymous_style,
         container |-> callers[j].container]]
    \o <<[block_level_boxes |-> block_level_boxes,
          anonymous_style |-> anonymous_style,
          container |-> container]>>

\* C24: in one call of construct the style system is asked for the anonymous
\* style at most once, exactly when the first anonymous block is made and
\* never when none is; all anonymous blocks of the container carry that style.
C24_AnonymousStyleLookedUpOnce ==
    \A j \in 1..Len(Builders) :
        LET b == Builders[j]
            anonymous == AnonymousBlocks(b.block_level_boxes)
        IN  /\ LookupsFor(b.container) = IF anonymous = {} THEN 0 ELSE 1
            /\ b.anonymous_style = None <=> anonymous = {}
            /\ \A i \in anonymous :
                  /\ b.anonymous_style = Some(b.block_level_boxes[i].box.style)
                  /\ b.block_level_boxes[i].box.style = style_for_anonymous(b.container)

\* C24 witness: the call has returned two anonymous blocks after one lookup.
C24_Witness ==
    /\ pc = "done"
    /\ Cardinality(AnonymousBlocks(block_level_boxes)) = 2
    /\ style_lookups = <<container>>

----------------------------------------------------------------------------
\* The stack of open inline boxes.

\* The inline-box elements whose children are being traversed: delivered,
\* and handle_element has not yet set their slot.
BeingTraversed == {e \in 1..nevents : IsInlineBox(e) /\ box_slots[e] = <<>>}

\* The styles of the frames, outermost first.
FrameStyles(stack) == [k \in 1..Len(stack) |-> stack[k].style]

\* The stack holds the frames of the elements being traversed, in the order
\* they were delivered.
StackIsBeingTraversed ==
    LET styles == FrameStyles(ongoing_inline_boxes_stack) IN
    /\ Len(styles) = Cardinality(BeingTraversed)
    /\ {styles[k] : k \in 1..Len(styles)} = BeingTraversed
    /\ \A k \in 1..(Len(styles) - 1) : styles[k] < styles[k + 1]

\* What the last step did to the stack.
StackStep ==
    LET before == pre.ongoing_inline_boxes_stack
        after == ongoing_inline_boxes_stack
    IN  CASE last.kind = "inline_box" ->
                /\ Len(after) = Len(before) + 1
                /\ FrameStyles(after) = Append(FrameStyles(before), nevents)
          [] last.kind = "inline_box_end" ->
                /\ before # <<>>
                /\ last.style = Last(before).style
                /\ FrameStyles(after) = Front(FrameStyles(before))
          [] last.kind = "block" ->
                /\ FrameStyles(after) = FrameStyles(before)
                /\ \A k \in 1..Len(after) : after[k].children = <<>>
          [] last.kind \in {"text", "atomic", "abspos", "float"} ->
                FrameStyles(after) = FrameStyles(before)
          [] OTHER -> TRUE

\* C25: during the walk the stack has one frame for each inline-box element
\* whose children are being traversed; an inline-box element pushes one frame
\* and pops that frame, text and the other elements leave the frames in
\* place, a block-level element emptying them; the stack is empty when the
\* traversal has returned.
C25_StackIsOpenInlineBoxes ==
    /\ StackIsBeingTraversed
    /\ StackStep
    /\ pc = "done" => (ongoing_inline_boxes_stack = <<>> /\ BeingTraversed = {})

\* C25 witness: a block-level element has emptied a frame that had children
\* and left it on the stack.
C25_Witness ==
    /\ last.kind = "block"
    /\ ongoing_inline_boxes_stack # <<>>
    /\ \E k \in 1..Len(ongoing_inline_boxes_stack) :
          pre.ongoing_inline_boxes_stack[k].children # <<>>

----------------------------------------------------------------------------
\* Termination.

\* The first call of construct has returned.
Terminated == pc = "done" /\ callers = <<>>

\* The loop of handle_text goes on with a shorter input.
LoopConsumes ==
    (pc = "text" /\ pc' = "text")
        => Len(text_loop'[1].input) < Len(text_loop[1].input)

\* The loop of handle_text, when it has broken, has made what handle_text makes.
LoopAgreesWithHandleText ==
    (pc = "walk" /\ last.kind = "text")
        => Current = handle_text(PreCurrent, last.input, ParentStyle)

\* C26: for every finite sequence of events the walk, the calls of construct
\* for deferred contents and the finish pass come to an end with a result,
\* and every iteration of the loop of handle_text that does not break leaves
\* a shorter input.
C26_ConstructionTerminates ==
    /\ <>Terminated
    /\ [][LoopConsumes]_vars

\* C26 witness: the first call has returned after a call for the contents
\* of a block and a text whose loop went round more than once.
C26_Witness ==
    /\ Terminated
    /\ result.kind = "BlockLevelBoxes"
    /\ Cardinality(returns) > 1
    /\ \E e \in 1..nevents :
          kinds[e] = "text" /\ LoopIteration(<<>>, document[e].text).continues

----------------------------------------------------------------------------
\* Out-of-flow boxes among the inline-level boxes.

IsOutOfFlow(box) ==
    box.kind \in {"OutOfFlowAbsolutelyPositionedBox", "OutOfFlowFloatBox"}

\* The inline-level boxes without the out-of-flow boxes among them and among
\* the children of their inline boxes.
RECURSIVE WithoutOutOfFlow(_)
WithoutOutOfFlow(boxes) ==
    IF boxes = <<>>
    THEN <<>>
    ELSE LET b == Last(boxes)
             front == WithoutOutOfFlow(Front(boxes))
         IN  IF IsOutOfFlow(b)
             THEN front
             ELSE IF b.kind = "InlineBox"
                  THEN Append(front, [b EXCEPT !.children = WithoutOutOfFlow(b.children)])
                  ELSE Append(front, b)

\* C27: whether the leading whitespace of a text is preserved is what it
\* would be without the out-of-flow boxes among the inline-level boxes before
\* it ("a", an inline-level float, " b": the space is preserved as after "a"
\* alone); after an out-of-flow box the text that is kept starts a text run.
C27_OutOfFlowTransparentToWhitespace ==
    TextEvent =>
        /\ last.preserved =
              handle_leading_whitespace(WithoutOutOfFlow(PreCurrent), last.input).preserved
        /\ (PreCurrent # <<>> /\ IsOutOfFlow(Last(PreCurrent))
                /\ TextIsKept(last.preserved, TrimStart(last.input)))
            => /\ Front(Current) = PreCurrent
               /\ Last(Current).kind = "TextRun"
        /\ (/\ Len(PreCurrent) = 2
            /\ PreCurrent[1] = TextRun(ParentStyle, <<"a">>)
            /\ IsOutOfFlow(PreCurrent[2])
            /\ last.input \in {<<" ", "a">>, <<" ">>})
            => /\ last.preserved
               /\ Last(Current) = TextRun(ParentStyle, last.input)

\* C27 witness: "a", an inline-level float and a text starting with a space,
\* whose space is preserved in a text run of its own.
C27_Witness ==
    /\ TextEvent
    /\ Len(PreCurrent) = 2
    /\ PreCurrent[1] = TextRun(ParentStyle, <<"a">>)
    /\ PreCurrent[2].kind = "OutOfFlowFloatBox"
    /\ last.preserved
    /\ Len(Current) = 3 /\ Current[3].text[1] = " "

----------------------------------------------------------------------------
\* The allocations of the text runs.

\* The allocations of the text runs in a sequence of inline-level boxes, those
\* in the children of its inline boxes included, one for each Arc that points
\* to a text run.
RECURSIVE ArcsIn(_)
ArcsIn(boxes) ==
    IF boxes = <<>> THEN <<>>
    ELSE LET box == Head(boxes)
             own == IF box.kind = "TextRun" THEN <<box.arc>>
                    ELSE IF box.kind = "InlineBox" THEN ArcsIn(box.children)
                    ELSE <<>>
         IN  own \o ArcsIn(Tail(boxes))

\* ... in the anonymous blocks among the first n deferred boxes ...
RECURSIVE ArcsInDeferred(_)
ArcsInDeferred(n) ==
    IF n = 0 THEN <<>>
    ELSE ArcsInDeferred(n - 1)
         \o (IF Anonymous(block_level_boxes[n])
             THEN ArcsIn(block_level_boxes[n].box.contents.inline_level_boxes)
             ELSE <<>>)

\* ... and in the children of the first n open inline boxes.
RECURSIVE ArcsInStack(_)
ArcsInStack(n) ==
    IF n = 0 THEN <<>>
    ELSE ArcsInStack(n - 1) \o ArcsIn(ongoing_inline_boxes_stack[n].children)

\* The text runs that a slot points to.
ArcsInSlots ==
    {<<e, i>> \in (1..Len(box_slots)) \X (1..MaxArcEvents + 1) :
        i <= Len(box_slots[e]) /\ box_slots[e][i].kind = "TextRun"}

\* Arc::strong_count of the allocation of a text run.
StrongCount(arc) ==
    LET held == ArcsInDeferred(Len(block_level_boxes))
                    \o ArcsIn(ongoing_inline_formatting_context)
                    \o ArcsInStack(Len(ongoing_inline_boxes_stack))
    IN  Cardinality({n \in 1..Len(held) : held[n] = arc})
        + Cardinality({s \in ArcsInSlots : box_slots[s[1]][s[2]].arc = arc})

\* The currently open inline sequence.
OpenSequence ==
    current_inline_level_boxes(ongoing_inline_boxes_stack,
                               ongoing_inline_formatting_context)

\* C28: during the walk, a text run that is the last box of the currently
\* open inline sequence is pointed to by one Arc only, so that
\* Arc::get_mut(..).unwrap() of handle_text finds it; no slot points to a
\* text run.
C28_LastTextRunExclusivelyOwned ==
    /\ (pc = "walk" /\ limits.arcs /\ last_text(OpenSequence) # None)
           => StrongCount(Last(OpenSequence).arc) = 1
    /\ ArcsInSlots = {}

\* C28 happens: handle_text has appended to the text run of an inline box
\* that was open across a block-level box.
C28_Witness ==
    /\ limits.arcs
    /\ pc = "walk"
    /\ last.kind = "text"
    /\ ongoing_inline_boxes_stack # <<>>
    /\ ~Last(ongoing_inline_boxes_stack).first_fragment
    /\ LET before == current_inline_level_boxes(pre.ongoing_inline_boxes_stack,
                                                pre.ongoing_inline_formatting_context)
       IN  /\ last_text(before) # None
           /\ Len(OpenSequence) = Len(before)
           /\ Last(OpenSequence).text # Last(before).text
           /\ Last(OpenSequence).arc = Last(before).arc

----------------------------------------------------------------------------
\* The slots when construct returns.

\* The elements whose boxes wait in the deferred sequence of a call that has
\* not returned to its caller.
DeferredByCallers ==
    UNION {SlotsOf(callers[j].block_level_boxes) : j \in 1..Len(callers)}

\* The kinds of box that handle_element sets in the slot of an element.
SlotKinds(kind) ==
    CASE kind = "inline_box" -> {"InlineBox"}
      [] kind = "atomic" -> {"Atomic"}
      [] kind = "abspos" -> {"OutOfFlowAbsolutelyPositionedBox"}
      [] kind = "float" -> {"OutOfFlowFloatBox"}
      [] kind = "block" -> {"SameFormattingContextBlock", "Independent"}
      [] OTHER -> {}

\* A box made by end_ongoing_inline_formatting_context.
AnonymousBox(box) == box.style < ContainerStyle

\* C29: when a call of construct has returned, the slot of every element
\* delivered to its builder, or to the builder of a call that returned before,
\* has been set exactly once, to the box of that element; text has no slot;
\* an anonymous block has the dummy slot and no other box has, so no slot of
\* an element is set to an anonymous block.
C29_SlotsWrittenWhenConstructReturns ==
    /\ pc = "done" =>
           \A e \in 1..nevents :
               IF kinds[e] = "text" THEN box_slots[e] = <<>>
               ELSE e \notin DeferredByCallers =>
                        /\ Len(box_slots[e]) = 1
                        /\ box_slots[e][1].style = e
                        /\ box_slots[e][1].kind \in SlotKinds(kinds[e])
    /\ \A j \in 1..Len(DeferredSequences) :
           \A i \in 1..Len(DeferredSequences[j]) :
               LET entry == DeferredSequences[j][i] IN
               AnonymousBox(entry.box) <=> entry.slot = DummySlot
    /\ \A e \in 1..nevents :
           \A i \in 1..Len(box_slots[e]) : ~AnonymousBox(box_slots[e][i])

\* C29 happens: the first call has returned; the walk set the slot of an
\* inline-level element, the pass that of a block-level element, once a call
\* of construct for its contents had returned, and an anonymous block was made.
C29_Witness ==
    /\ Terminated
    /\ \E e \in 1..nevents : kinds[e] \in {"inline_box", "atomic"} /\ Len(box_slots[e]) = 1
    /\ \E e \in 1..nevents :
           /\ kinds[e] = "block" /\ Len(box_slots[e]) = 1
           /\ box_slots[e][1].kind = "SameFormattingContextBlock"
    /\ \E i \in 1..Len(block_level_boxes) : AnonymousBox(block_level_boxes[i].box)

----------------------------------------------------------------------------
\* The text of the text runs.

\* The texts of the text runs in a sequence of inline-level boxes, those in
\* the children of its inline boxes included.
RECURSIVE TextsIn(_)
TextsIn(boxes) ==
    UNION {LET b == boxes[i] IN
           CASE b.kind = "TextRun" -> {b.text}
             [] b.kind = "InlineBox" -> TextsIn(b.children)
             [] OTHER -> {}
           : i \in 1..Len(boxes)}

\* The texts of the text runs that the builder holds.
StoredTexts == UNION {TextsIn(boxes) : boxes \in InlineSequences}

\* No two consecutive spaces.
NoDoubleSpace(text) ==
    \A i \in 1..(Len(text) - 1) : ~(text[i] = " " /\ text[i + 1] = " ")

\* No whitespace but the space.
OnlySpaces(text) == \A i \in 1..Len(text) : text[i] \in Whitespace => text[i] = " "

\* C30: whatever text was delivered, no text run that the builder holds is
\* empty, none has two consecutive spaces, and none has a whitespace
\* character that is not the space; so it is when text is appended to a run
\* that ends with a space.
C30_TextRunsCollapsed ==
    \A text \in StoredTexts :
        /\ text # <<>>
        /\ NoDoubleSpace(text)
        /\ OnlySpaces(text)

\* C30 happens: text was appended to a text run that ended with a space.
C30_Witness ==
    /\ TextEvent
    /\ LET before == current_inline_level_boxes(pre.ongoing_inline_boxes_stack,
                                                pre.ongoing_inline_formatting_context)
       IN  /\ last_text(before) # None
           /\ EndsWithSpace(Last(before).text)
           /\ Len(OpenSequence) = Len(before)
           /\ Len(Last(OpenSequence).text) > Len(Last(before).text)

----------------------------------------------------------------------------
\* The slot of a fragmented inline box.

\* The fragments of the inline box of an element, in document order.
FragmentsOfElement(e) == FragmentsIn(EmittedInlines, e)

\* The fragments of the inline box of an element below the boxes set in the
\* slots of the elements.
FragmentsInSlots(e) ==
    UNION {{FragmentsIn(box_slots[f], e)[i] : i \in 1..Len(FragmentsIn(box_slots[f], e))} :
              f \in 1..nevents}

\* C31: the slot of an inline box is set to its last fragment, the one with
\* last_fragment = true that was open when its traversal ended; the fragments
\* made before, one for each block-level box inside the element, have
\* last_fragment = false, are not below any box set in a slot, and lie in the
\* anonymous blocks.
C31_SlotHoldsLastFragment ==
    \A e \in 1..nevents :
        (IsInlineBox(e) /\ box_slots[e] # <<>>) =>
            LET box == box_slots[e][1]
                fragments == FragmentsOfElement(e)
                n == Len(fragments)
            IN  /\ Len(box_slots[e]) = 1
                /\ n = blocks_inside[e] + 1
                /\ box = fragments[n]
                /\ box.last_fragment
                /\ box.first_fragment <=> blocks_inside[e] = 0
                /\ \A i \in 1..(n - 1) :
                       /\ ~fragments[i].last_fragment
                       /\ fragments[i] \notin FragmentsInSlots(e)
                /\ LET deferred == FragmentsIn(AnonymousInlines(block_level_boxes), e)
                   IN  /\ Len(deferred) >= n - 1
                       /\ SubSeq(fragments, 1, n - 1) = SubSeq(deferred, 1, n - 1)

\* C31 happens: an inline box with a block-level box inside was closed with
\* children after the block, and its slot is set.
C31_Witness ==
    \E e \in 1..nevents :
        /\ IsInlineBox(e) /\ box_slots[e] # <<>>
        /\ blocks_inside[e] > 0
        /\ box_slots[e][1].children # <<>>
        /\ pc = "walk"

----------------------------------------------------------------------------
\* A block-level box inside open inline boxes.

\* The block-level element delivered last found an inline box open.
BlockInsideInlineBox == last.kind = "block" /\ pre.ongoing_inline_boxes_stack # <<>>

\* The deferred box at i stands where the open inline boxes were fragmented:
\* the box before it is an anonymous block that ends with a fragment which
\* is not the last of its element.
FragmentedBefore(boxes, i) ==
    /\ i > 1
    /\ boxes[i].slot # DummySlot
    /\ AnonymousBox(boxes[i - 1].box)
    /\ LET inlines == boxes[i - 1].box.contents.inline_level_boxes IN
       Last(inlines).kind = "InlineBox" /\ ~Last(inlines).last_fragment

\* The fragment that closes or continues the inline boxes is first in the anonymous block.
ContinuedIn(entry, style) ==
    /\ AnonymousBox(entry.box)
    /\ LET inlines == entry.box.contents.inline_level_boxes IN
       /\ Head(inlines).kind = "InlineBox"
       /\ Head(inlines).style = style
       /\ ~Head(inlines).first_fragment

\* C32: a block-level element in normal flow that finds an inline box open
\* is pushed after an anonymous block that ends with the fragments of the
\* open inline boxes, whether they have children or not; when construct
\* returns, the box after it is an anonymous block that begins with the
\* next fragment of the outermost of these inline boxes, whether it has
\* children or not, so the container has three block-level boxes or more.
C32_BlockInsideInlineBoxYieldsThree ==
    /\ (BlockInsideInlineBox /\ pc = "walk") =>
           LET n == Len(block_level_boxes) IN
           /\ n = Len(pre.block_level_boxes) + 2
           /\ block_level_boxes[n].slot = nevents
           /\ FragmentedBefore(block_level_boxes, n)
           /\ Last(block_level_boxes[n - 1].box.contents.inline_level_boxes)
                  = FragmentedInline(pre.ongoing_inline_boxes_stack)
    /\ pc = "done" =>
           \A i \in 1..Len(block_level_boxes) :
               FragmentedBefore(block_level_boxes, i) =>
                   /\ i < Len(block_level_boxes)
                   /\ result.kind = "BlockLevelBoxes"
                   /\ Len(result.boxes) >= 3
                   /\ ContinuedIn(block_level_boxes[i + 1],
                          Last(block_level_boxes[i - 1].box.contents.inline_level_boxes).style)

\* C32 happens: construct has returned three boxes for an inline box with
\* nothing but a block-level element inside.
C32_Witness ==
    /\ pc = "done"
    /\ Len(block_level_boxes) = 3
    /\ FragmentedBefore(block_level_boxes, 2)
    /\ block_level_boxes[1].box.contents.inline_level_boxes[1].children = <<>>
    /\ block_level_boxes[3].box.contents.inline_level_boxes[1].children = <<>>

----------------------------------------------------------------------------
\* What follows an anonymous block.

\* The deferred box of a block-level element in normal flow.
NormalFlowBlock(entry) ==
    /\ entry.slot # DummySlot
    /\ ~AnonymousBox(entry.box)
    /\ entry.box.kind \in {"SameFormattingContextBlock", "Independent"}
    /\ kinds[entry.slot] = "block"

\* C33: in the deferred sequence an anonymous block is the last entry, and
\* then construct has pushed it after the traversal, or the entry after it is
\* the box of a block-level element in normal flow: not an anonymous block,
\* not a deferred out-of-flow box.
C33_AnonymousBlockFollowedByBlock ==
    \A i \in 1..Len(block_level_boxes) :
        AnonymousBox(block_level_boxes[i].box) =>
            IF i = Len(block_level_boxes)
            THEN pc = "done" /\ last.kind = "construct"
            ELSE NormalFlowBlock(block_level_boxes[i + 1])

\* C33 happens: the deferred sequence has an anonymous block before a
\* block-level box, a deferred out-of-flow box, and an anonymous block last.
C33_Witness ==
    /\ pc = "done"
    /\ \E i \in 1..(Len(block_level_boxes) - 1) : AnonymousBox(block_level_boxes[i].box)
    /\ AnonymousBox(Last(block_level_boxes).box)
    /\ \E i \in 1..Len(block_level_boxes) :
           block_level_boxes[i].box.kind
               \in {"OutOfFlowAbsolutelyPositionedBox", "OutOfFlowFloatBox"}

----------------------------------------------------------------------------
\* The thread of a dedicated worker.

\* TrustedWorkerAddress: the worker the thread was spawned for is 1.
Workers == {1, 2}
SpawnedFor == 1

\* MixedMessage: what handle_mixed_message matches on.
DevtoolsMessages ==
    {[from |-> "Devtools", msg |-> m, linked_worker |-> 0, script |-> "None"] :
        m \in {"EvaluateJS", "GetCachedMessages", "WantsLiveNotifications", "Other"}}
WorkerMessages ==
    {[from |-> "Worker", msg |-> "CommonWorker", linked_worker |-> w, script |-> m] :
        w \in Workers, m \in {"DOMMessage", "Common"}}
    \cup {[from |-> "Worker", msg |-> "WakeUp", linked_worker |-> 0, script |-> "None"]}
MixedMessages == DevtoolsMessages \cup WorkerMessages

\* The arms of handle_mixed_message and handle_script_event that run script
\* of the worker: devtools::handle_evaluate_js, MessageEvent::dispatch_jsval,
\* WorkerGlobalScope::process_event.
RunsScript(msg) ==
    \/ msg.from = "Devtools" /\ msg.msg = "EvaluateJS"
    \/ msg.from = "Worker" /\ msg.msg = "CommonWorker"

\* The arm of handle_mixed_message that makes an AutoWorkerReset.
Resets(msg) == msg.from = "Worker" /\ msg.msg = "CommonWorker"

\* AutoWorkerReset::new: replace(&mut *workerscope.worker.borrow_mut(), Some(worker))
AutoWorkerResetNew(field, address) ==
    [worker |-> Some(address), guard |-> [old_worker |-> field, set |-> address]]

\* drop leaving None, whatever the guard replaced.
DropClears(guard) == None

\* impl Drop for AutoWorkerReset
Drop(guard) == guard.old_worker

\* Script is running in the worker scope.
ScriptMayRun ==
    \/ at = "execute"
    \/ at = "handle" /\ RunsScript(message[1])

\* The thread does nothing to the builder of a box tree.
ThreadOnly ==
    UNCHANGED <<limits, pc, text_loop, builder, box_slots, result, calls, history>>

\* load_whole_resource returns Err: the error task goes to the parent, return.
LoadFails ==
    /\ at = "load"
    /\ loaded' = "Err"
    /\ parent_sender' = Append(parent_sender, "SimpleWorkerErrorHandler")
    /\ at' = "returned"
    /\ UNCHANGED <<worker, guards, closing, executed, observed, message, handled>>
    /\ ThreadOnly

\* load_whole_resource returns Ok.
LoadSucceeds ==
    /\ at = "load"
    /\ loaded' = "Ok"
    /\ at' = "loaded"
    /\ UNCHANGED <<worker, guards, closing, parent_sender, executed, observed, message,
                   handled>>
    /\ ThreadOnly

\* if scope.is_closing() { return; } and, if not, AutoWorkerReset::new and
\* the call of execute_script.
ExecuteScript ==
    /\ at = "loaded"
    /\ IF closing
       THEN /\ observed' = TRUE
            /\ at' = "returned"
            /\ UNCHANGED <<worker, guards, executed>>
       ELSE LET ar == AutoWorkerResetNew(worker, SpawnedFor) IN
            /\ worker' = ar.worker
            /\ guards' = Append(guards, ar.guard)
            /\ executed' = executed + 1
            /\ at' = "execute"
            /\ UNCHANGED observed
    /\ UNCHANGED <<closing, parent_sender, loaded, message, handled>>
    /\ ThreadOnly

\* execute_script returns and _ar is dropped.
ExecuteScriptReturns ==
    /\ at = "execute"
    /\ worker' = Drop(Last(guards))
    /\ guards' = Front(guards)
    /\ at' = "while"
    /\ UNCHANGED <<closing, parent_sender, loaded, executed, observed, message, handled>>
    /\ ThreadOnly

\* Script calls script_chan or new_script_pair, which unwrap the worker field.
ScriptUnwraps ==
    /\ ScriptMayRun
    /\ worker = None
    /\ at' = "panicked"
    /\ UNCHANGED <<worker, guards, closing, parent_sender, loaded, executed, observed,
                   message, handled>>
    /\ ThreadOnly

\* Script calls postMessage or reports an error: post_message_impl and
\* forward_error_to_worker_object unwrap the worker field and send a task to
\* the parent.
ScriptSends(task) ==
    /\ ScriptMayRun
    /\ worker # None
    /\ Len(parent_sender) < MaxWorkerTasks
    /\ parent_sender' = Append(parent_sender, task)
    /\ UNCHANGED <<worker, guards, at, closing, loaded, executed, observed, message, handled>>
    /\ ThreadOnly

\* The closing flag is set: Close() called by script, or the parent, which
\* shares the flag, at any time.
SetClosing ==
    /\ ~closing
    /\ at \notin {"returned", "panicked"}
    /\ closing' = TRUE
    /\ UNCHANGED <<worker, guards, at, parent_sender, loaded, executed, observed, message,
                   handled>>
    /\ ThreadOnly

\* loop { run_worker_event_loop(&*global, Some(&worker)); }
LoopWithoutTest ==
    /\ at = "while"
    /\ at' = "loop"
    /\ UNCHANGED <<worker, guards, closing, parent_sender, loaded, executed, observed,
                   message, handled>>
    /\ ThreadOnly

\* while !scope.is_closing() { run_worker_event_loop(&*global, Some(&worker)); }
WhileNotClosing ==
    /\ at = "while"
    /\ IF closing
       THEN observed' = TRUE /\ at' = "returned"
       ELSE at' = "loop" /\ UNCHANGED observed
    /\ UNCHANGED <<worker, guards, closing, parent_sender, loaded, executed, message, handled>>
    /\ ThreadOnly

\* run_worker_event_loop calls handle_event, which calls handle_mixed_message:
\* up to the call that handles the message.
HandleEvent(msg) ==
    /\ at = "loop"
    /\ Len(handled) < MaxWorkerEvents
    /\ message' = Some(msg)
    /\ handled' = Append(handled, [message |-> msg, before |-> worker, after |-> worker,
                                   returned |-> FALSE])
    /\ IF Resets(msg)
       THEN LET ar == AutoWorkerResetNew(worker, msg.linked_worker) IN
            /\ worker' = ar.worker
            /\ guards' = Append(guards, ar.guard)
       ELSE UNCHANGED <<worker, guards>>
    /\ at' = "handle"
    /\ UNCHANGED <<closing, parent_sender, loaded, executed, observed>>
    /\ ThreadOnly

\* handle_mixed_message returns; _ar is dropped in the arm that made it.
HandleEventReturns ==
    /\ at = "handle"
    /\ LET after == IF Resets(message[1]) THEN Drop(Last(guards)) ELSE worker IN
       /\ worker' = after
       /\ guards' = IF Resets(message[1]) THEN Front(guards) ELSE guards
       /\ handled' = [handled EXCEPT ![Len(handled)].after = after,
                                     ![Len(handled)].returned = TRUE]
    /\ message' = None
    /\ at' = "loop"
    /\ UNCHANGED <<closing, parent_sender, loaded, executed, observed>>
    /\ ThreadOnly

\* run_worker_event_loop calls handle_worker_post_event and holds the
\* AutoWorkerReset that it returns.
HandleWorkerPostEvent ==
    /\ at = "loop"
    /\ Len(guards) < MaxWorkerGuards
    /\ LET ar == AutoWorkerResetNew(worker, SpawnedFor) IN
       /\ worker' = ar.worker
       /\ guards' = Append(guards, ar.guard)
    /\ UNCHANGED <<at, closing, parent_sender, loaded, executed, observed, message, handled>>
    /\ ThreadOnly

\* run_worker_event_loop drops the AutoWorkerReset it made last.
PostEventDropped ==
    /\ at = "loop"
    /\ guards # <<>>
    /\ worker' = Drop(Last(guards))
    /\ guards' = Front(guards)
    /\ UNCHANGED <<at, closing, parent_sender, loaded, executed, observed, message, handled>>
    /\ ThreadOnly

\* run_worker_event_loop returns; what it held is dropped.
EventLoopReturns ==
    /\ at = "loop"
    /\ guards = <<>>
    /\ at' = "while"
    /\ UNCHANGED <<worker, guards, closing, parent_sender, loaded, executed, observed,
                   message, handled>>
    /\ ThreadOnly

NextWorker ==
    \/ LoadFails
    \/ LoadSucceeds
    \/ ExecuteScript
    \/ ExecuteScriptReturns
    \/ ScriptUnwraps
    \/ \E task \in {"post_worker_message", "forward_error_to_worker_object"} :
           ScriptSends(task)
    \/ SetClosing
    \/ WhileNotClosing
    \/ \E msg \in MixedMessages : HandleEvent(msg)
    \/ HandleEventReturns
    \/ HandleWorkerPostEvent
    \/ PostEventDropped
    \/ EventLoopReturns

\* The thread as run_worker_scope spawns it; no box tree is built.
InitWorker ==
    InitFrom([events |-> 0, chars |-> 0, depth |-> 0, alphabet |-> {},
              document |-> FALSE, computed |-> FALSE, arcs |-> FALSE,
              requests |-> {"None"}])
SpecWorker == InitWorker /\ [][NextWorker]_vars

----------------------------------------------------------------------------
\* The worker field and its guards.

\* Every AutoWorkerReset alive replaced what the one before it had set, the
\* first of them None.
GuardsNested ==
    \A i \in 1..Len(guards) :
        guards[i].old_worker = IF i = 1 THEN None ELSE Some(guards[i - 1].set)

\* C34: while an AutoWorkerReset is alive and no newer one is, the worker
\* field is the worker it was made with; when it is dropped the field is
\* what it was before: after handle_mixed_message has returned, whatever the
\* message and whatever guards were alive around the call, the field is what
\* it was when the call was made, and with no guard alive it is None.
C34_WorkerFieldRestored ==
    /\ guards # <<>> => worker = Some(Last(guards).set)
    /\ guards = <<>> => worker = None
    /\ GuardsNested
    /\ \A i \in 1..Len(handled) :
           handled[i].returned => handled[i].after = handled[i].before

\* C34 happens: a message from another worker was handled while the event
\* loop held a guard, and every guard has been dropped since.
C34_Witness ==
    /\ at = "while"
    /\ guards = <<>>
    /\ \E i \in 1..Len(handled) :
           /\ handled[i].returned
           /\ Resets(handled[i].message)
           /\ handled[i].message.linked_worker # SpawnedFor
           /\ handled[i].before = Some(SpawnedFor)

----------------------------------------------------------------------------
\* The worker field while script runs.

\* C35: in every state in which script may run in the worker scope (the
\* worker script is being executed, a message of a worker or an EvaluateJS
\* message of the devtools is being handled), the worker field is Some, and
\* no unwrap of the field has found None.
C35_WorkerSetWhileScriptRuns ==
    /\ ScriptMayRun => worker # None
    /\ at # "panicked"

\* What does hold: the worker field is Some while the worker script is
\* executed and while a message of a worker is handled.
WorkerSetUnlessDevtools ==
    (at = "execute" \/ (at = "handle" /\ Resets(message[1]))) => worker # None

----------------------------------------------------------------------------
\* The script and the event loop of the worker thread.

\* The thread is executing the script or is in its event loop.
Running == at \in {"execute", "while", "loop", "handle"}

\* What the thread has done in every state.
RunsOnlyWhenLoaded ==
    /\ loaded = "Err" =>
           /\ at = "returned"
           /\ parent_sender = <<"SimpleWorkerErrorHandler">>
           /\ executed = 0
           /\ handled = <<>>
    /\ (Running \/ executed > 0 \/ handled # <<>>) => (loaded = "Ok" /\ executed = 1)
    /\ observed => at = "returned"
    /\ \A i \in 1..Len(parent_sender) :
           parent_sender[i] = "SimpleWorkerErrorHandler" => loaded = "Err"

\* The script is executed, and an iteration of the event loop started, only
\* with the closing flag not set.
StartsOnlyIfNotClosing ==
    /\ (at = "loaded" /\ at' = "execute") => ~closing
    /\ (at = "while" /\ at' = "loop") => ~closing

\* C36: the script is executed, once, and the event loop entered only if the
\* script was loaded and is_closing() was false after the load; if the load
\* fails, one SimpleWorkerErrorHandler task is sent to the parent and the
\* thread returns with no script executed and no event handled; an iteration
\* of the event loop starts only with the closing flag not set, and none
\* starts once is_closing() has returned true.
C36_RunsOnlyLoadedAndNotClosing ==
    /\ []RunsOnlyWhenLoaded
    /\ [][StartsOnlyIfNotClosing]_vars

\* C36 happens: the script was executed, the event loop handled a message,
\* then found the closing flag set and the thread returned.
C36_Witness ==
    /\ at = "returned"
    /\ observed
    /\ executed = 1
    /\ \E i \in 1..Len(handled) : handled[i].returned

====
